---------------------------- MODULE Spec2Model ----------------------------
(* Cattle, a Brainfuck interpreter library: the memory tape                 *)
(* (cattle/cattle-tape.c) and the execution engine                          *)
(* (cattle/cattle-interpreter.c), as a state machine.                       *)
(*                                                                          *)
(* Pointers are modelled by identity: a tape chunk (a GList node) is an     *)
(* integer id, an instruction (a CattleInstruction pointer) is an index into    *)
(* the program's arena of nodes, 0 being NULL.  A gchar is a signed         *)
(* 8-bit integer (the x86 ABI); a conversion to gchar keeps the low 8 bits. *)
EXTENDS Integers, Sequences, FiniteSets, TLC

VARIABLES
    tape,           \* CattleTapePrivate
    program,        \* CattleProgram: instructions (arena, root) and input
    configuration,  \* CattleConfiguration: on_eof_action, debug_is_enabled
    priv,           \* CattleInterpreterPrivate: had_input, input, input_cursor, end_of_input_reached
    stack,          \* the active invocations of run_real, innermost last
    error,          \* whether the caller's GError has been set
    result,         \* what cattle_interpreter_run returned: "none", "running", TRUE, FALSE
    hist,           \* observations of the current run (which callbacks ran, which failed)
    ops             \* number of API calls made by the client so far

vars == <<tape, program, configuration, priv, stack, error, result, hist, ops>>

-----------------------------------------------------------------------------
(* Values *)

\* The NULL string pointer: a value distinct from every string, none of which
\* holds the code point 0.  A string is the sequence of its code points.
NULL == <<0>>

Gchar == -128 .. 127

\* (gchar) x: conversion of an integer to a signed 8-bit char.
ToGchar(x) == LET m == x % 256 IN IF m >= 128 THEN m - 256 ELSE m

\* <stdio.h> EOF, as the code uses it: (gchar) EOF.
EOF == -1

CHUNK_SIZE == 128

-----------------------------------------------------------------------------
(* The tape: cattle/cattle-tape.c *)

ZeroChunk == [o \in 0 .. (CHUNK_SIZE - 1) |-> 0]

\* cattle_tape_init: one zero-filled chunk, the cursor on its first cell.
cattle_tape_init ==
    [ head        |-> <<0>>,
      chunks      |-> (0 :> ZeroChunk),
      current     |-> 0,
      offset      |-> 0,
      lower_limit |-> 0,
      upper_limit |-> 0,
      bookmarks   |-> <<>> ]

\* g_list_previous (current) == NULL / g_list_next (current) == NULL
g_list_previous_is_null(t) == t.current = t.head[1]
g_list_next_is_null(t) == t.current = t.head[Len(t.head)]

IndexOf(t, c) == CHOOSE i \in 1 .. Len(t.head) : t.head[i] = c

g_list_previous(t) == t.head[IndexOf(t, t.current) - 1]
g_list_next(t) == t.head[IndexOf(t, t.current) + 1]

cattle_tape_get_current_value(t) == t.chunks[t.current][t.offset]

\* A variant of cattle_tape_set_current_value that writes at the offset in
\* the first chunk of the list, whatever the current chunk is.
cattle_tape_set_current_value_in_head(t, value) ==
    [t EXCEPT !.chunks[t.head[1]][t.offset] = ToGchar(value)]

\* A variant of cattle_tape_set_current_value that also takes the offset
\* written at for the upper limit.
cattle_tape_set_current_value_touch_limit(t, value) ==
    [t EXCEPT !.chunks[t.current][t.offset] = ToGchar(value),
              !.upper_limit = t.offset]

cattle_tape_set_current_value(t, value) ==
    [t EXCEPT !.chunks[t.current][t.offset] = ToGchar(value)]

\* A variant of cattle_tape_move_left that keeps the old lower limit when it
\* prepends a chunk.
cattle_tape_move_left_stale_limit(t) ==
    IF t.offset = 0
    THEN IF g_list_previous_is_null(t)
         THEN LET c == t.head[1] - 1
              IN  [t EXCEPT !.head = <<c>> \o t.head,
                            !.chunks = (c :> ZeroChunk) @@ t.chunks,
                            !.current = c,
                            !.offset = CHUNK_SIZE - 1]
         ELSE [t EXCEPT !.current = g_list_previous(t),
                        !.offset = CHUNK_SIZE - 1]
    ELSE LET o == t.offset - 1
         IN  [t EXCEPT !.offset = o,
                       !.lower_limit =
                           IF g_list_previous_is_null(t) /\ o < t.lower_limit
                           THEN o ELSE t.lower_limit]

\* A variant of cattle_tape_move_left that, on the first cell of the first
\* chunk, wraps to the last cell of that chunk instead of allocating.
cattle_tape_move_left_wrap(t) ==
    IF t.offset = 0
    THEN IF g_list_previous_is_null(t)
         THEN [t EXCEPT !.lower_limit = CHUNK_SIZE - 1,
                        !.offset = CHUNK_SIZE - 1]
         ELSE [t EXCEPT !.current = g_list_previous(t),
                        !.offset = CHUNK_SIZE - 1]
    ELSE LET o == t.offset - 1
         IN  [t EXCEPT !.offset = o,
                       !.lower_limit =
                           IF g_list_previous_is_null(t) /\ o < t.lower_limit
                           THEN o ELSE t.lower_limit]

cattle_tape_move_left(t) ==
    IF t.offset = 0
    THEN IF g_list_previous_is_null(t)
         THEN LET c == t.head[1] - 1
              IN  [t EXCEPT !.head = <<c>> \o t.head,
                            !.chunks = (c :> ZeroChunk) @@ t.chunks,
                            !.lower_limit = CHUNK_SIZE - 1,
                            !.current = c,
                            !.offset = CHUNK_SIZE - 1]
         ELSE [t EXCEPT !.current = g_list_previous(t),
                        !.offset = CHUNK_SIZE - 1]
    ELSE LET o == t.offset - 1
         IN  [t EXCEPT !.offset = o,
                       !.lower_limit =
                           IF g_list_previous_is_null(t) /\ o < t.lower_limit
                           THEN o ELSE t.lower_limit]

\* A variant of cattle_tape_move_right that raises the upper limit in
\* whatever chunk the cursor is.
cattle_tape_move_right_any_chunk(t) ==
    IF t.offset = CHUNK_SIZE - 1
    THEN IF g_list_next_is_null(t)
         THEN LET c == t.head[Len(t.head)] + 1
              IN  [t EXCEPT !.head = Append(t.head, c),
                            !.chunks = (c :> ZeroChunk) @@ t.chunks,
                            !.upper_limit = 0,
                            !.current = c,
                            !.offset = 0]
         ELSE [t EXCEPT !.current = g_list_next(t),
                        !.offset = 0]
    ELSE LET o == t.offset + 1
         IN  [t EXCEPT !.offset = o,
                       !.upper_limit = IF o > t.upper_limit THEN o ELSE t.upper_limit]

cattle_tape_move_right(t) ==
    IF t.offset = CHUNK_SIZE - 1
    THEN IF g_list_next_is_null(t)
         THEN LET c == t.head[Len(t.head)] + 1
              IN  [t EXCEPT !.head = Append(t.head, c),
                            !.chunks = (c :> ZeroChunk) @@ t.chunks,
                            !.upper_limit = 0,
                            !.current = c,
                            !.offset = 0]
         ELSE [t EXCEPT !.current = g_list_next(t),
                        !.offset = 0]
    ELSE LET o == t.offset + 1
         IN  [t EXCEPT !.offset = o,
                       !.upper_limit =
                           IF g_list_next_is_null(t) /\ o > t.upper_limit
                           THEN o ELSE t.upper_limit]

\* A variant of cattle_tape_is_at_beginning that takes the first cell of the
\* first chunk for the beginning.
cattle_tape_is_at_beginning_of_chunk(t) ==
    g_list_previous_is_null(t) /\ t.offset = 0

cattle_tape_is_at_beginning(t) ==
    g_list_previous_is_null(t) /\ t.offset = t.lower_limit

cattle_tape_is_at_end(t) ==
    g_list_next_is_null(t) /\ t.offset = t.upper_limit

\* The new bookmark is prepended: the top of the stack is the first element.
cattle_tape_push_bookmark(t) ==
    [t EXCEPT !.bookmarks = <<[chunk |-> t.current, offset |-> t.offset]>> \o t.bookmarks]

\* A variant of cattle_tape_pop_bookmark that restores the offset but stays in
\* the current chunk.
cattle_tape_pop_bookmark_offset_only(t) ==
    IF t.bookmarks # <<>>
    THEN [tape |-> [t EXCEPT !.bookmarks = Tail(t.bookmarks),
                             !.offset = t.bookmarks[1].offset],
          check |-> TRUE]
    ELSE [tape |-> t, check |-> FALSE]

\* A variant of cattle_tape_pop_bookmark that, finding no bookmark, goes back
\* to the start of the current chunk.
cattle_tape_pop_bookmark_rewind(t) ==
    IF t.bookmarks # <<>>
    THEN [tape |-> [t EXCEPT !.bookmarks = Tail(t.bookmarks),
                             !.current = t.bookmarks[1].chunk,
                             !.offset = t.bookmarks[1].offset],
          check |-> TRUE]
    ELSE [tape |-> [t EXCEPT !.offset = 0], check |-> FALSE]

\* The tape after the call and the value returned.
cattle_tape_pop_bookmark(t) ==
    IF t.bookmarks # <<>>
    THEN [tape |-> [t EXCEPT !.bookmarks = Tail(t.bookmarks),
                             !.current = t.bookmarks[1].chunk,
                             !.offset = t.bookmarks[1].offset],
          check |-> TRUE]
    ELSE [tape |-> t, check |-> FALSE]

\* for (i = 0; i < quantity; i++) cattle_tape_move_left (tape);
\* The n calls are made as the first n \div 2 of them, whose result u is
\* computed before the rest are made from it: this keeps the evaluation
\* shallow when n is a whole chunk.
RECURSIVE MoveLeftTimes(_, _)
MoveLeftTimes(t, n) ==
    IF n <= 0 THEN t
    ELSE IF n = 1 THEN cattle_tape_move_left(t)
    ELSE CHOOSE r \in { MoveLeftTimes(u, n - (n \div 2)) :
                            u \in {MoveLeftTimes(t, n \div 2)} } : TRUE

\* for (i = 0; i < quantity; i++) cattle_tape_move_right (tape);
RECURSIVE MoveRightTimes(_, _)
MoveRightTimes(t, n) ==
    IF n <= 0 THEN t
    ELSE IF n = 1 THEN cattle_tape_move_right(t)
    ELSE CHOOSE r \in { MoveRightTimes(u, n - (n \div 2)) :
                            u \in {MoveRightTimes(t, n \div 2)} } : TRUE

-----------------------------------------------------------------------------
(* Instructions and programs: cattle/cattle-instruction.c *)

\* A node as cattle_instruction_init leaves it, with its four properties set.
Instruction(v, q, n, l) == [value |-> v, quantity |-> q, next |-> n, loop |-> l]

\* +[.-]
ProgPrintLoop ==
    << Instruction("INCREASE", 1, 2, 0),
       Instruction("LOOP_BEGIN", 1, 0, 3),
       Instruction("PRINT", 1, 4, 0),
       Instruction("DECREASE", 1, 5, 0),
       Instruction("LOOP_END", 1, 0, 0) >>

\* ,[.,]
ProgCat ==
    << Instruction("READ", 1, 2, 0),
       Instruction("LOOP_BEGIN", 1, 0, 3),
       Instruction("PRINT", 1, 4, 0),
       Instruction("READ", 1, 5, 0),
       Instruction("LOOP_END", 1, 0, 0) >>

\* +,,.
ProgRead2 ==
    << Instruction("INCREASE", 1, 2, 0),
       Instruction("READ", 2, 3, 0),
       Instruction("PRINT", 1, 0, 0) >>

\* +[-+#-]..
ProgMidZero ==
    << Instruction("INCREASE", 1, 2, 0),
       Instruction("LOOP_BEGIN", 1, 8, 3),
       Instruction("DECREASE", 1, 4, 0),
       Instruction("INCREASE", 1, 5, 0),
       Instruction("DUMP_TAPE", 1, 6, 0),
       Instruction("DECREASE", 1, 7, 0),
       Instruction("LOOP_END", 1, 0, 0),
       Instruction("PRINT", 2, 0, 0) >>

\* ++[>+[.-]<-]
ProgNested ==
    << Instruction("INCREASE", 2, 2, 0),
       Instruction("LOOP_BEGIN", 1, 0, 3),
       Instruction("MOVE_RIGHT", 1, 4, 0),
       Instruction("INCREASE", 1, 5, 0),
       Instruction("LOOP_BEGIN", 1, 6, 9),
       Instruction("MOVE_LEFT", 1, 7, 0),
       Instruction("DECREASE", 1, 8, 0),
       Instruction("LOOP_END", 1, 0, 0),
       Instruction("PRINT", 1, 10, 0),
       Instruction("DECREASE", 1, 11, 0),
       Instruction("LOOP_END", 1, 0, 0) >>

\* the empty program: cattle_program_new's single node
ProgEmpty == << Instruction("NONE", 1, 0, 0) >>

\* <+>##
ProgMoves ==
    << Instruction("MOVE_LEFT", 1, 2, 0),
       Instruction("INCREASE", 1, 3, 0),
       Instruction("MOVE_RIGHT", 1, 4, 0),
       Instruction("DUMP_TAPE", 2, 0, 0) >>

\* [+].
ProgSkip ==
    << Instruction("LOOP_BEGIN", 1, 4, 2),
       Instruction("INCREASE", 1, 3, 0),
       Instruction("LOOP_END", 1, 0, 0),
       Instruction("PRINT", 1, 0, 0) >>

\* Literal inputs a program may carry (code points); NULL: none.
ProgramInputs == {NULL, <<>>, <<97>>, <<97, 255>>}

\* Lines the Input Request handler may hand over; NULL: end of input.
InputLines == {NULL, <<>>, <<98>>, <<256, 10>>}

Programs ==
    [instructions : {ProgCat, ProgRead2}, root : {1}, input : ProgramInputs]
    \cup [instructions : {ProgPrintLoop, ProgMidZero, ProgNested, ProgEmpty, ProgMoves,
                          ProgSkip},
          root : {1}, input : {NULL}]

\* cattle_configuration: the on-EOF action and the debug flag.
OnEofActions == {"STORE_ZERO", "STORE_EOF", "DO_NOTHING"}
Configurations == [on_eof_action : OnEofActions, debug_is_enabled : BOOLEAN]

-----------------------------------------------------------------------------
(* The execution engine: cattle/cattle-interpreter.c *)

\* Bounds of the model.
MaxRuns == 1

\* The values an uninitialized gchar may hold when it is read: any of them.
UninitializedValues == Gchar

\* What a handler hands back through g_signal_emit: its return value, whether
\* it set the GError, and (Input Request) the line it stored.
CallbackResults ==
    { [ret |-> TRUE,  err |-> FALSE, line |-> NULL],
      [ret |-> FALSE, err |-> TRUE,  line |-> NULL],
      [ret |-> TRUE,  err |-> TRUE,  line |-> NULL] }

InputResults ==
    [ret : {TRUE}, err : BOOLEAN, line : InputLines]
    \cup { [ret |-> FALSE, err |-> TRUE, line |-> NULL] }

NoCallback == [ret |-> TRUE, err |-> FALSE, line |-> NULL]

\* cattle_interpreter_init
cattle_interpreter_init ==
    [ had_input            |-> FALSE,
      input                |-> NULL,
      input_cursor         |-> NULL,
      end_of_input_reached |-> FALSE ]

\* g_utf8_get_char on a cursor, a suffix of the string it points into: the
\* code point under the cursor, 0 on the terminator.
g_utf8_get_char(cursor) == IF cursor = <<>> THEN 0 ELSE Head(cursor)

g_utf8_next_char(cursor) == Tail(cursor)

\* A new invocation of run_real: success = TRUE, temp and i not yet set.
\* pass_failed observes that a pass of a loop of this invocation returned
\* failure; the program does not read it.
NewFrame(instruction) ==
    [ instruction |-> instruction,
      success     |-> TRUE,
      temp        |-> 0,
      temp_set    |-> FALSE,
      i           |-> 0,
      phase       |-> "exec",
      pass_failed |-> FALSE ]

\* A variant of NeedsFetch that asks the handler also when the program
\* carried its input.
NeedsFetchIgnoringHadInput(p) ==
    /\ ~p.end_of_input_reached
    /\ (p.input_cursor = NULL \/ g_utf8_get_char(p.input_cursor) = 0)

\* The test of STEP 1: is the "input-request" signal emitted in this iteration?
NeedsFetch(p) ==
    /\ p.had_input = FALSE
    /\ ~p.end_of_input_reached
    /\ (p.input_cursor = NULL \/ g_utf8_get_char(p.input_cursor) = 0)

\* STEP 2 of a Read iteration on the session p: temp and the new session.
\* Reading the character under a NULL cursor is a crash.
ReadGetChar(p, program_input) ==
    IF p.end_of_input_reached
    THEN [priv |-> p, temp |-> EOF, crash |-> FALSE]
    ELSE IF p.input_cursor = NULL
    THEN [priv |-> p, temp |-> 0, crash |-> TRUE]
    ELSE LET temp == ToGchar(g_utf8_get_char(p.input_cursor))
         IN  IF temp = 0
             THEN IF program_input = NULL
                  THEN [priv |-> [p EXCEPT !.end_of_input_reached = TRUE],
                        temp |-> EOF, crash |-> FALSE]
                  ELSE [priv |-> p, temp |-> temp, crash |-> FALSE]
             ELSE [priv |-> [p EXCEPT !.input_cursor = g_utf8_next_char(p.input_cursor)],
                   temp |-> temp, crash |-> FALSE]

\* STEP 1 of a Read iteration, the handler having answered cb: the session
\* with the new line under the cursor.
ReadFetch(p, cb) ==
    [p EXCEPT !.input = cb.line,
              !.input_cursor = cb.line,
              !.end_of_input_reached = IF cb.line = NULL THEN TRUE ELSE @]

\* One iteration of the for loop of the Read case (STEP 1 and STEP 2); cb is
\* the handler's answer, used only if the signal is emitted.
ReadIteration(p, program_input, cb) ==
    IF NeedsFetch(p)
    THEN IF cb.ret = FALSE
         THEN [priv |-> p, temp |-> 0, temp_set |-> FALSE, fetched |-> TRUE,
               broke |-> TRUE, crash |-> FALSE]
         ELSE LET r == ReadGetChar(ReadFetch(p, cb), program_input)
              IN  [priv |-> r.priv, temp |-> r.temp, temp_set |-> TRUE, fetched |-> TRUE,
                   broke |-> FALSE, crash |-> r.crash]
    ELSE LET r == ReadGetChar(p, program_input)
         IN  [priv |-> r.priv, temp |-> r.temp, temp_set |-> TRUE, fetched |-> FALSE,
              broke |-> FALSE, crash |-> r.crash]

\* STEP 3 of the Read case: the tape after the operation.
ReadStore(t, temp, on_eof_action) ==
    IF temp = EOF
    THEN CASE on_eof_action = "STORE_ZERO" -> cattle_tape_set_current_value(t, 0)
           [] on_eof_action = "STORE_EOF"  -> cattle_tape_set_current_value(t, temp)
           [] OTHER                        -> t
    ELSE cattle_tape_set_current_value(t, temp)

-----------------------------------------------------------------------------
(* The state machine of a run *)

Top == stack[Len(stack)]

Instr(n) == program.instructions[n]

cattle_instruction_value == Instr(Top.instruction).value

\* Observations of a run; none of them is read by the program.
HistInit ==
    [ last              |-> "init",   \* the step taken last
      cb                |-> "none",   \* the callback it invoked: "input", "output", "debug"
      failed            |-> FALSE,    \* a callback has returned FALSE in this run
      true_with_error   |-> FALSE,    \* a callback has returned TRUE with the error set
      cb_after_failure  |-> FALSE,    \* a callback was invoked after one had failed
      run_after_failure |-> FALSE,    \* an instruction was started after a callback had failed
      read              |-> "none",   \* last Read iteration: "char", "eof", "failed"
      consumed          |-> 0,        \* the code point it had to consume
      eoi               |-> FALSE,    \* the Input Request handler has signalled the end of input
      old               |-> 0,        \* the current cell before the last Read, Increase or Decrease
      out               |-> 0,        \* the value handed to the Output Request handler
      emitted           |-> 0,        \* emissions so far of the Print or DumpTape under way
      ret               |-> TRUE,     \* the value the handler invoked last returned
      programs          |-> 1 ]       \* programs the interpreter has been given

\* The observations of one step are forgotten at the next.
HistLast(h, name) ==
    [h EXCEPT !.last = name, !.cb = "none", !.read = "none", !.consumed = 0, !.old = 0,
              !.out = 0, !.emitted = 0, !.ret = TRUE]

\* The observation of starting an instruction.
HistStart(h, name) ==
    [HistLast(h, name) EXCEPT !.run_after_failure = @ \/ h.failed]

\* The observation of the callback which, that answered cb.
HistCallback(h, which, cb) ==
    [h EXCEPT !.cb = which,
              !.ret = cb.ret,
              !.failed = @ \/ ~cb.ret,
              !.true_with_error = @ \/ (cb.ret /\ cb.err),
              !.cb_after_failure = @ \/ h.failed]

SetTop(f) == [stack EXCEPT ![Len(stack)] = f]

\* A variant of Advance that, inside a loop body, also leaves the chain when
\* the instruction found the current cell at 0.
AdvanceUnlessZero(f) ==
    LET nx == Instr(f.instruction).next
    IN  IF nx # 0 /\ f.success
           /\ (Len(stack) < 2 \/ cattle_tape_get_current_value(tape) # 0)
        THEN [f EXCEPT !.instruction = nx, !.phase = "exec", !.i = 0]
        ELSE [f EXCEPT !.phase = "ret", !.i = 0]

\* "instruction = cattle_instruction_get_next (instruction)" and the test of
\* the do-while: the frame goes on with the next instruction or returns.
Advance(f) ==
    LET nx == Instr(f.instruction).next
    IN  IF nx # 0 /\ f.success
        THEN [f EXCEPT !.instruction = nx, !.phase = "exec", !.i = 0]
        ELSE [f EXCEPT !.phase = "ret", !.i = 0]

Init ==
    /\ tape = cattle_tape_init
    /\ program \in Programs
    /\ configuration \in Configurations
    /\ priv = cattle_interpreter_init
    /\ stack = <<>>
    /\ error = FALSE
    /\ result = "none"
    /\ hist = HistInit
    /\ ops = 0

\* A variant of cattle_interpreter_run that leaves the input cursor where
\* the run before left it.
cattle_interpreter_run_keeps_cursor ==
    /\ stack = <<>>
    /\ priv' = [priv EXCEPT !.input_cursor = IF ops = 0 THEN program.input ELSE @,
                            !.had_input = IF program.input # NULL THEN TRUE ELSE @]
    /\ stack' = <<NewFrame(program.root)>>
    /\ error' = FALSE
    /\ result' = "running"
    /\ hist' = [HistInit EXCEPT !.last = "run", !.eoi = hist.eoi, !.programs = hist.programs]
    /\ ops' = ops + 1
    /\ UNCHANGED <<tape, program, configuration>>

\* A variant of cattle_interpreter_run that starts a new input session.
cattle_interpreter_run_new_session ==
    /\ stack = <<>>
    /\ priv' = [priv EXCEPT !.input_cursor = program.input,
                            !.had_input = IF program.input # NULL THEN TRUE ELSE @,
                            !.end_of_input_reached = FALSE]
    /\ stack' = <<NewFrame(program.root)>>
    /\ error' = FALSE
    /\ result' = "running"
    /\ hist' = [HistInit EXCEPT !.last = "run", !.eoi = hist.eoi, !.programs = hist.programs]
    /\ ops' = ops + 1
    /\ UNCHANGED <<tape, program, configuration>>

\* cattle_interpreter_run, up to its call of run_real on the root.
cattle_interpreter_run ==
    /\ stack = <<>>
    /\ priv' = [priv EXCEPT !.input_cursor = program.input,
                            !.had_input = IF program.input # NULL THEN TRUE ELSE @]
    /\ stack' = <<NewFrame(program.root)>>
    /\ error' = FALSE
    /\ result' = "running"
    /\ hist' = [HistInit EXCEPT !.last = "run", !.eoi = hist.eoi, !.programs = hist.programs]
    /\ ops' = ops + 1
    /\ UNCHANGED <<tape, program, configuration>>

\* One run of the program the interpreter was given.
Run ==
    /\ ops < MaxRuns
    /\ cattle_interpreter_run

AtInstruction(v) ==
    /\ stack # <<>>
    /\ Top.phase = "exec"
    /\ cattle_instruction_value = v

\* Variant: the loop as a do-while, the body entered before the first test.
StepLoopBeginDoWhile ==
    /\ AtInstruction("LOOP_BEGIN")
    /\ LET loop == Instr(Top.instruction).loop
       IN  IF loop # 0 /\ (cattle_tape_get_current_value(tape) # 0 \/ hist.last # "return")
           THEN /\ stack' = Append(stack, NewFrame(loop))
                /\ hist' = HistStart(hist, "pass")
           ELSE /\ stack' = SetTop(Advance(Top))
                /\ hist' = HistLast(hist, "loop_exit")
    /\ UNCHANGED <<tape, program, configuration, priv, error, result, ops>>

\* case CATTLE_INSTRUCTION_LOOP_BEGIN: the test of the while; a pass of the
\* body is a new invocation of run_real.
StepLoopBegin ==
    /\ AtInstruction("LOOP_BEGIN")
    /\ LET loop == Instr(Top.instruction).loop
       IN  IF loop # 0 /\ cattle_tape_get_current_value(tape) # 0
           THEN /\ stack' = Append(stack, NewFrame(loop))
                /\ hist' = HistStart(hist, "pass")
           ELSE /\ stack' = SetTop(Advance(Top))
                /\ hist' = HistLast(hist, "loop_exit")
    /\ UNCHANGED <<tape, program, configuration, priv, error, result, ops>>

\* case CATTLE_INSTRUCTION_LOOP_END: return success;
StepLoopEnd ==
    /\ AtInstruction("LOOP_END")
    /\ stack' = SetTop([Top EXCEPT !.phase = "ret"])
    /\ hist' = HistStart(hist, "loop_end")
    /\ UNCHANGED <<tape, program, configuration, priv, error, result, ops>>

\* return from run_real: to the while of the caller's LoopBegin, which assigns
\* the value to its success, or to cattle_interpreter_run.
Return ==
    /\ stack # <<>>
    /\ Top.phase = "ret"
    /\ IF Len(stack) = 1
       THEN /\ stack' = <<>>
            /\ result' = IF Top.success THEN "success" ELSE "failure"
       ELSE /\ stack' = [SubSeq(stack, 1, Len(stack) - 1)
                            EXCEPT ![Len(stack) - 1].success = Top.success,
                                   ![Len(stack) - 1].pass_failed = @ \/ ~Top.success]
            /\ result' = result
    /\ hist' = HistLast(hist, "return")
    /\ UNCHANGED <<tape, program, configuration, priv, error, ops>>

StepMoveLeft ==
    /\ AtInstruction("MOVE_LEFT")
    /\ tape' = MoveLeftTimes(tape, Instr(Top.instruction).quantity)
    /\ stack' = SetTop(Advance(Top))
    /\ hist' = HistStart(hist, "move_left")
    /\ UNCHANGED <<program, configuration, priv, error, result, ops>>

StepMoveRight ==
    /\ AtInstruction("MOVE_RIGHT")
    /\ tape' = MoveRightTimes(tape, Instr(Top.instruction).quantity)
    /\ stack' = SetTop(Advance(Top))
    /\ hist' = HistStart(hist, "move_right")
    /\ UNCHANGED <<program, configuration, priv, error, result, ops>>

\* A variant of Increase that stops at the largest gchar instead of wrapping.
IncreaseSaturating(t, quantity) ==
    LET sum == cattle_tape_get_current_value(t) + quantity
    IN  cattle_tape_set_current_value(t, IF sum > 127 THEN 127 ELSE sum)

\* case CATTLE_INSTRUCTION_INCREASE
Increase(t, quantity) ==
    cattle_tape_set_current_value(t, cattle_tape_get_current_value(t) + quantity)

\* case CATTLE_INSTRUCTION_DECREASE
Decrease(t, quantity) ==
    cattle_tape_set_current_value(t, cattle_tape_get_current_value(t) - quantity)

StepIncrease ==
    /\ AtInstruction("INCREASE")
    /\ tape' = Increase(tape, Instr(Top.instruction).quantity)
    /\ stack' = SetTop(Advance(Top))
    /\ hist' = [HistStart(hist, "increase") EXCEPT !.old = cattle_tape_get_current_value(tape)]
    /\ UNCHANGED <<program, configuration, priv, error, result, ops>>

StepDecrease ==
    /\ AtInstruction("DECREASE")
    /\ tape' = Decrease(tape, Instr(Top.instruction).quantity)
    /\ stack' = SetTop(Advance(Top))
    /\ hist' = [HistStart(hist, "decrease") EXCEPT !.old = cattle_tape_get_current_value(tape)]
    /\ UNCHANGED <<program, configuration, priv, error, result, ops>>

StepNone ==
    /\ AtInstruction("NONE")
    /\ stack' = SetTop(Advance(Top))
    /\ hist' = HistStart(hist, "none")
    /\ UNCHANGED <<tape, program, configuration, priv, error, result, ops>>

\* The observation of a step of an instruction that iterates: its first step
\* starts the instruction.
HistStep(h, f, name) ==
    IF f.phase = "exec" THEN HistStart(h, name) ELSE HistLast(h, name)

InIteration(v) ==
    /\ stack # <<>>
    /\ Top.phase \in {"exec", "iter"}
    /\ cattle_instruction_value = v

\* What a Read iteration has to consume, whatever the engine makes of it: the
\* rest of the literal input, or of the line buffered or just handed over.
Available(p, program_input, fetched, cb, eoi) ==
    IF program_input # NULL
    THEN (IF p.input_cursor = NULL THEN <<>> ELSE p.input_cursor)
    ELSE IF fetched
    THEN (IF cb.line = NULL THEN <<>> ELSE cb.line)
    ELSE IF eoi \/ p.input_cursor = NULL THEN <<>> ELSE p.input_cursor

\* case CATTLE_INSTRUCTION_READ: one iteration of the for loop.
StepReadIter ==
    /\ InIteration("READ")
    /\ \E cb \in (IF NeedsFetch(priv) THEN InputResults ELSE {NoCallback}) :
         LET f  == Top
             r  == ReadIteration(priv, program.input, cb)
             f1 == [f EXCEPT !.temp = IF r.temp_set THEN r.temp ELSE @,
                             !.temp_set = @ \/ r.temp_set,
                             !.success = IF r.fetched THEN cb.ret ELSE @,
                             !.i = f.i + 1,
                             !.phase = IF r.broke \/ f.i + 1 >= Instr(f.instruction).quantity
                                       THEN "store" ELSE "iter"]
             h  == HistStep(hist, f, "read_iter")
             h1 == IF r.fetched THEN HistCallback(h, "input", cb) ELSE h
             av == Available(priv, program.input, r.fetched, cb, hist.eoi)
         IN  /\ priv' = r.priv
             /\ error' = (error \/ (r.fetched /\ cb.err))
             /\ IF r.crash
                THEN /\ stack' = <<>>
                     /\ result' = "crashed"
                ELSE /\ stack' = SetTop(f1)
                     /\ result' = result
             /\ hist' = [h1 EXCEPT
                            !.read = IF r.broke THEN "failed"
                                     ELSE IF av = <<>> THEN "eof" ELSE "char",
                            !.consumed = IF r.broke \/ av = <<>> THEN 0 ELSE Head(av),
                            !.eoi = @ \/ (r.fetched /\ cb.ret /\ cb.line \in {NULL, <<>>})]
    /\ UNCHANGED <<tape, program, configuration, ops>>

\* case CATTLE_INSTRUCTION_READ: STEP 3, after the for loop.  temp is read
\* uninitialized if no iteration of this invocation has assigned it: any value.
StepReadStore ==
    /\ stack # <<>>
    /\ Top.phase = "store"
    /\ \E garbage \in (IF Top.temp_set THEN {0} ELSE UninitializedValues) :
         LET temp == IF Top.temp_set THEN Top.temp ELSE garbage
         IN  tape' = ReadStore(tape, temp, configuration.on_eof_action)
    /\ stack' = SetTop(Advance(Top))
    /\ hist' = [hist EXCEPT !.last = "read_store",
                            !.cb = "none",
                            !.old = cattle_tape_get_current_value(tape)]
    /\ UNCHANGED <<program, configuration, priv, error, result, ops>>

\* A variant of AfterEmission that goes on with the repetitions after a
\* handler has failed.
AfterEmissionNoBreak(f, cb) ==
    LET f1 == [f EXCEPT !.success = cb.ret, !.i = f.i + 1]
    IN  IF f1.i >= Instr(f.instruction).quantity
        THEN Advance(f1)
        ELSE [f1 EXCEPT !.phase = "iter"]

\* One emission of a signal whose handler answered cb, inside the for loop of
\* Print or DumpTape: success is the handler's value, FALSE breaks the loop.
AfterEmission(f, cb) ==
    LET f1 == [f EXCEPT !.success = cb.ret, !.i = f.i + 1]
    IN  IF cb.ret = FALSE \/ f1.i >= Instr(f.instruction).quantity
        THEN Advance(f1)
        ELSE [f1 EXCEPT !.phase = "iter"]

\* case CATTLE_INSTRUCTION_PRINT: one iteration of the for loop.
StepPrint ==
    /\ InIteration("PRINT")
    /\ \E cb \in CallbackResults :
         /\ stack' = SetTop(AfterEmission(Top, cb))
         /\ error' = (error \/ cb.err)
         /\ hist' = [HistCallback(HistStep(hist, Top, "print"), "output", cb)
                        EXCEPT !.out = cattle_tape_get_current_value(tape),
                               !.emitted = Top.i + 1]
    /\ UNCHANGED <<tape, program, configuration, priv, result, ops>>

\* A variant of StepDumpTape that does not look at the configuration.
StepDumpTapeAlways ==
    /\ InIteration("DUMP_TAPE")
    /\ \E cb \in CallbackResults :
         /\ stack' = SetTop(AfterEmission(Top, cb))
         /\ error' = (error \/ cb.err)
         /\ hist' = [HistCallback(HistStep(hist, Top, "debug"), "debug", cb)
                        EXCEPT !.emitted = Top.i + 1]
    /\ UNCHANGED <<tape, program, configuration, priv, result, ops>>

\* case CATTLE_INSTRUCTION_DUMP_TAPE: nothing unless debugging is enabled,
\* else one iteration of the for loop.
StepDumpTape ==
    /\ InIteration("DUMP_TAPE")
    /\ IF configuration.debug_is_enabled
       THEN \E cb \in CallbackResults :
              /\ stack' = SetTop(AfterEmission(Top, cb))
              /\ error' = (error \/ cb.err)
              /\ hist' = [HistCallback(HistStep(hist, Top, "debug"), "debug", cb)
                             EXCEPT !.emitted = Top.i + 1]
       ELSE /\ stack' = SetTop(Advance(Top))
            /\ error' = error
            /\ hist' = HistStart(hist, "dump_skipped")
    /\ UNCHANGED <<tape, program, configuration, priv, result, ops>>

Next ==
    \/ Run
    \/ StepLoopBegin
    \/ StepLoopEnd
    \/ StepMoveLeft
    \/ StepMoveRight
    \/ StepIncrease
    \/ StepDecrease
    \/ StepReadIter
    \/ StepReadStore
    \/ StepPrint
    \/ StepDumpTape
    \/ StepNone
    \/ Return

Spec == Init /\ [][Next]_vars

-----------------------------------------------------------------------------
(* Failure of a callback during a run *)

Returned == result \in {"success", "failure"}

\* C1: when a pass of a loop body returns failure, the enclosing LoopBegin
\* starts no further pass and its invocation holds the failure: an invocation
\* that has seen a pass fail is the innermost one and its success is FALSE.
C1_LoopStopsOnFailure ==
    \A i \in 1 .. Len(stack) :
        stack[i].pass_failed => (i = Len(stack) /\ ~stack[i].success)

\* C2: after the first callback that reports failure, no callback is invoked
\* and no instruction is started for the rest of the run.
C2_NothingAfterFailure ==
    ~hist.cb_after_failure /\ ~hist.run_after_failure

\* C3: run() returns failure if and only if some callback reported failure
\* during the run.
C3_FailureIffCallbackFailed ==
    Returned => (result = "failure" <=> hist.failed)

\* C4: a callback that returns TRUE with the error set makes run() fail.
C4_TrueWithErrorFails ==
    (Returned /\ hist.true_with_error) => result = "failure"

\* What the on-EOF action makes of a cell holding old.
PolicyValue(old, on_eof_action) ==
    CASE on_eof_action = "STORE_ZERO" -> 0
      [] on_eof_action = "STORE_EOF"  -> EOF
      [] OTHER                        -> old

\* C5: a Read at the end of the input (literal or from the handler) leaves the
\* cell as the on-EOF action says; a Read that consumes a character stores it.
C5_ReadStoresPerPolicy ==
    hist.last = "read_store" =>
        /\ hist.read = "eof" =>
               cattle_tape_get_current_value(tape)
                   = PolicyValue(hist.old, configuration.on_eof_action)
        /\ hist.read = "char" =>
               cattle_tape_get_current_value(tape) = ToGchar(hist.consumed)

-----------------------------------------------------------------------------
(* Input requests and loops *)

\* C7: the Input Request callback is invoked only in a Read, and only when
\* the program carries no literal input, the end of input has not been reached
\* and the buffered line is exhausted or absent; a NULL or empty line from a
\* handler that succeeded marks the end of input.
C7_InputRequestOnlyWhenNeeded ==
    [][ hist'.cb = "input" =>
          /\ stack # <<>>
          /\ cattle_instruction_value = "READ"
          /\ program.input = NULL
          /\ ~priv.end_of_input_reached
          /\ priv.input_cursor \in {NULL, <<>>}
          /\ (hist'.read # "failed" /\ priv'.input \in {NULL, <<>>})
                 => priv'.end_of_input_reached ]_vars

\* The handler has just handed over an empty or absent line, and the end of
\* input is marked.
C7_Witness ==
    /\ hist.cb = "input"
    /\ hist.read = "eof"
    /\ program.input = NULL
    /\ priv.input \in {NULL, <<>>}
    /\ priv.end_of_input_reached

\* C8: the condition of a LoopBegin is evaluated only between full passes of
\* its body: a pass starts only from the test of a LoopBegin that finds the
\* cell non-zero, a pass that returns success ended at its LoopEnd, and the
\* loop is left only by a test that finds the cell at 0.
C8_ConditionOnlyBetweenPasses ==
    [][ /\ (Len(stack) >= 1 /\ Len(stack') = Len(stack) + 1) =>
              /\ AtInstruction("LOOP_BEGIN")
              /\ cattle_tape_get_current_value(tape) # 0
              /\ stack'[Len(stack')] = NewFrame(Instr(Top.instruction).loop)
        /\ (Len(stack) >= 2 /\ Len(stack') = Len(stack) - 1 /\ Top.success) =>
              hist.last = "loop_end"
        /\ hist'.last = "loop_exit" =>
              cattle_tape_get_current_value(tape) = 0 ]_vars

\* Inside a pass of a loop body an Increase has just run on a cell that was 0,
\* and the pass goes on.
C8_Witness ==
    /\ Len(stack) >= 2
    /\ hist.last = "increase"
    /\ hist.old = 0
    /\ Top.phase = "exec"

-----------------------------------------------------------------------------
(* Print and DumpTape *)

\* What one emission of a Print or DumpTape of quantity n does to its
\* invocation: it is one of at most n, every emission before it in this
\* execution succeeded, and the instruction is left exactly at a failure or at
\* the n-th emission.
OneEmissionOf(which) ==
    LET n == Instr(Top.instruction).quantity
    IN  /\ hist'.cb = which
        /\ hist'.emitted = Top.i + 1
        /\ hist'.emitted <= n
        /\ Top.phase = "iter" => Top.success
        /\ Len(stack') = Len(stack)
        /\ stack'[Len(stack')].success = hist'.ret
        /\ IF ~hist'.ret \/ hist'.emitted = n
           THEN stack'[Len(stack')].phase # "iter"
           ELSE /\ stack'[Len(stack')].phase = "iter"
                /\ stack'[Len(stack')].instruction = Top.instruction
                /\ stack'[Len(stack')].i = hist'.emitted

\* C21: a Print of quantity n hands the current cell's value to the Output
\* Request handler once per repetition, n times if every call succeeds, and
\* skips the repetitions left at the first call that fails; it never
\* modifies the tape.
C21_PrintRepeatsUntilFailure ==
    [][ hist'.last = "print" =>
          /\ stack # <<>>
          /\ cattle_instruction_value = "PRINT"
          /\ hist'.out = cattle_tape_get_current_value(tape)
          /\ tape' = tape
          /\ OneEmissionOf("output") ]_vars

\* A Print of quantity 2 has made its second emission, both having succeeded,
\* and is left.
C21_Witness ==
    /\ hist.last = "print"
    /\ hist.emitted = 2
    /\ ~hist.failed
    /\ stack # <<>>
    /\ Top.phase # "iter"

\* C22: with debugging enabled a DumpTape of quantity n invokes the Debug
\* Request handler once per repetition and stops at the first failure; with
\* debugging disabled it invokes no handler, changes neither the tape, the
\* session nor the error, and leaves the invocation's success as it was.
C22_DumpTapeOnlyWhenDebugging ==
    [][ /\ hist'.last = "debug" =>
              /\ stack # <<>>
              /\ cattle_instruction_value = "DUMP_TAPE"
              /\ configuration.debug_is_enabled
              /\ OneEmissionOf("debug")
        /\ (stack # <<>> /\ Top.phase \in {"exec", "iter"}
               /\ cattle_instruction_value = "DUMP_TAPE"
               /\ ~configuration.debug_is_enabled) =>
              /\ hist'.last = "dump_skipped"
              /\ hist'.cb = "none"
              /\ hist'.failed = hist.failed
              /\ tape' = tape /\ priv' = priv /\ error' = error /\ result' = result
              /\ stack'[Len(stack')].success = Top.success ]_vars

\* With debugging enabled a DumpTape of quantity 2 has made its second
\* emission.
C22_Witness ==
    /\ hist.last = "debug"
    /\ hist.emitted = 2
    /\ hist.ret
    /\ configuration.debug_is_enabled
    /\ program.instructions = ProgMoves

-----------------------------------------------------------------------------
(* A Read whose Input Request handler fails *)

\* C28: a Read during which the Input Request handler reported failure does
\* not write the current cell: after the Read the tape is as it was before.
C28_FailedReadWritesNothing ==
    [][ (hist'.last = "read_store" /\ hist.read = "failed") => tape' = tape ]_vars

\* C31: a Read iteration that has a character to consume, whatever its code
\* point, takes it as a character: the end of input is not marked, the
\* cursor moves past it, and the store that follows writes it to the cell.
C31_ConsumedCharacterIsStored ==
    [][ /\ (hist'.last = "read_iter" /\ hist'.read = "char") =>
              /\ result' # "crashed"
              /\ priv'.end_of_input_reached = priv.end_of_input_reached
              /\ stack'[Len(stack')].temp = ToGchar(hist'.consumed)
              /\ priv'.input_cursor # <<hist'.consumed>> \o priv'.input_cursor
              /\ Len(priv'.input_cursor) =
                    Len(IF hist'.cb = "input" THEN priv'.input ELSE priv.input_cursor) - 1
        /\ (hist'.last = "read_store" /\ hist.read = "char") =>
              tape' = cattle_tape_set_current_value(tape, hist.consumed) ]_vars

-----------------------------------------------------------------------------
(* Increase and Decrease on every cell value *)

MaxQuantity == 3

\* Quantities around the multiples of 128: 1 .. MaxQuantity, 127, 128, ...,
\* 255, 256, ...
ArithQuantities ==
    { b + k : b \in {0, 127, 255}, k \in 0 .. MaxQuantity } \ {0}

\* A tape whose current cell holds v, and a program that is one Increase or
\* Decrease node.
InitArith ==
    /\ \E v \in Gchar : tape = cattle_tape_set_current_value(cattle_tape_init, v)
    /\ \E op \in {"INCREASE", "DECREASE"}, q \in ArithQuantities :
         program = [instructions |-> <<Instruction(op, q, 0, 0)>>, root |-> 1, input |-> NULL]
    /\ configuration = [on_eof_action |-> "STORE_ZERO", debug_is_enabled |-> FALSE]
    /\ priv = cattle_interpreter_init
    /\ stack = <<>>
    /\ error = FALSE
    /\ result = "none"
    /\ hist = HistInit
    /\ ops = 0

NextArith ==
    \/ Run
    \/ StepIncrease
    \/ StepDecrease
    \/ Return

SpecArith == InitArith /\ [][NextArith]_vars

\* C9: Increase / Decrease of quantity q leaves in the current cell the value
\* of -128 .. 127 congruent modulo 256 to old + q, respectively old - q.
C9_IncreaseDecreaseWrap ==
    LET new == cattle_tape_get_current_value(tape)
        q   == program.instructions[1].quantity
    IN  /\ hist.last = "increase" =>
              (new \in Gchar /\ (new - (hist.old + q)) % 256 = 0)
        /\ hist.last = "decrease" =>
              (new \in Gchar /\ (new - (hist.old - q)) % 256 = 0)

\* 127 + 1 = -128
C9_Witness ==
    /\ hist.last = "increase"
    /\ hist.old = 127
    /\ program.instructions[1].quantity = 1
    /\ cattle_tape_get_current_value(tape) = -128

-----------------------------------------------------------------------------
(* The tape driven through its public interface *)

MaxTapeOps == 6
MaxBookmarks == 2

\* How many times in a row a client moves: one cell, or a whole chunk.
TapeStrides == {1, CHUNK_SIZE}
TapeValues == {1}

\* The position of the current cell, counted from the cell the tape starts
\* on: chunk c holds the cells c * CHUNK_SIZE .. c * CHUNK_SIZE + CHUNK_SIZE - 1.
Position(chunk, offset) == chunk * CHUNK_SIZE + offset

\* What the client has done, kept beside the tape: where it has moved to, and
\* for each cattle_tape_push_bookmark not yet matched, where it was.
TapeHistInit ==
    [ last     |-> "init",
      position |-> 0,
      marks    |-> <<>>,
      check    |-> FALSE,
      popped   |-> [position |-> 0, first |-> 0, last |-> 0, wrote |-> FALSE],
      from     |-> 0,
      stride   |-> 0,      \* how many cells the last move went
      leftmost |-> 0,      \* the leftmost and the rightmost position the
      rightmost |-> 0,     \* cursor has been on
      under_reported |-> FALSE,   \* a state before this one was at an end
                                  \* visited that is_at_* did not report
      cells    |-> <<>> ]  \* the values written, by position: the tape as a
                          \* map from the integers, 0 where nothing is written

\* The cursor is on the leftmost cell it has ever been on and
\* cattle_tape_is_at_beginning is false, or on the rightmost and
\* cattle_tape_is_at_end is false.
UnderReport ==
    \/ hist.position = hist.leftmost /\ ~cattle_tape_is_at_beginning(tape)
    \/ hist.position = hist.rightmost /\ ~cattle_tape_is_at_end(tape)

InitTape ==
    /\ tape = cattle_tape_init
    /\ program = [instructions |-> ProgEmpty, root |-> 1, input |-> NULL]
    /\ configuration = [on_eof_action |-> "STORE_ZERO", debug_is_enabled |-> FALSE]
    /\ priv = cattle_interpreter_init
    /\ stack = <<>>
    /\ error = FALSE
    /\ result = "none"
    /\ hist = TapeHistInit
    /\ ops = 0

TapeCall ==
    /\ ops < MaxTapeOps
    /\ ops' = ops + 1
    /\ UNCHANGED <<program, configuration, priv, stack, error, result>>

TapeMoveLeft ==
    /\ TapeCall
    /\ \E n \in TapeStrides :
         /\ tape' = MoveLeftTimes(tape, n)
         /\ hist' = [hist EXCEPT !.last = "move_left", !.under_reported = @ \/ UnderReport, !.position = @ - n,
                                 !.stride = n,
                                 !.leftmost = IF hist.position - n < @
                                              THEN hist.position - n ELSE @]

TapeMoveRight ==
    /\ TapeCall
    /\ \E n \in TapeStrides :
         /\ tape' = MoveRightTimes(tape, n)
         /\ hist' = [hist EXCEPT !.last = "move_right", !.under_reported = @ \/ UnderReport, !.position = @ + n,
                                 !.stride = n,
                                 !.rightmost = IF hist.position + n > @
                                               THEN hist.position + n ELSE @]

TapeSetCurrentValue ==
    /\ TapeCall
    /\ \E v \in TapeValues :
         /\ tape' = cattle_tape_set_current_value(tape, v)
         /\ hist' = [hist EXCEPT !.last = "set_current_value", !.under_reported = @ \/ UnderReport,
                                 !.cells = (hist.position :> ToGchar(v)) @@ @,
                                 !.marks = [i \in 1 .. Len(@) |-> [@[i] EXCEPT !.wrote = TRUE]]]

TapePushBookmark ==
    /\ TapeCall
    /\ Len(tape.bookmarks) < MaxBookmarks
    /\ tape' = cattle_tape_push_bookmark(tape)
    /\ hist' = [hist EXCEPT !.last = "push_bookmark", !.under_reported = @ \/ UnderReport,
                            !.marks = <<[position |-> hist.position,
                                         first    |-> tape.head[1],
                                         last     |-> tape.head[Len(tape.head)],
                                         wrote    |-> FALSE]>> \o @]

TapePopBookmark ==
    /\ TapeCall
    /\ LET r == cattle_tape_pop_bookmark(tape)
       IN  /\ tape' = r.tape
           /\ hist' = IF hist.marks # <<>>
                      THEN [hist EXCEPT !.last = "pop_bookmark", !.under_reported = @ \/ UnderReport,
                                        !.check = r.check,
                                        !.popped = Head(hist.marks),
                                        !.from = hist.position,
                                        !.position = Head(hist.marks).position,
                                        !.marks = Tail(@)]
                      ELSE [hist EXCEPT !.last = "pop_bookmark", !.under_reported = @ \/ UnderReport,
                                        !.check = r.check,
                                        !.from = hist.position]

NextTape ==
    \/ TapeMoveLeft
    \/ TapeMoveRight
    \/ TapeSetCurrentValue
    \/ TapePushBookmark
    \/ TapePopBookmark

SpecTape == InitTape /\ [][NextTape]_vars

\* C10: cattle_tape_pop_bookmark puts the cursor back on the cell that was
\* current at the matching cattle_tape_push_bookmark, whatever moves, growth
\* of the tape and writes came between; bookmarks come back last in, first
\* out, and a pop that succeeds removes exactly one of them.
C10_PopRestoresPushedCell ==
    /\ Len(tape.bookmarks) = Len(hist.marks)
    /\ \A i \in 1 .. Len(tape.bookmarks) :
         Position(tape.bookmarks[i].chunk, tape.bookmarks[i].offset) = hist.marks[i].position
    /\ (hist.last = "pop_bookmark" /\ hist.check) =>
         Position(tape.current, tape.offset) = hist.popped.position

\* Two bookmarks pushed on different cells, the tape grown and a cell written
\* since the inner push, and the inner bookmark popped from another cell.
C10_Witness ==
    /\ hist.last = "pop_bookmark"
    /\ hist.check
    /\ hist.from # hist.popped.position
    /\ hist.popped.wrote
    /\ Len(hist.marks) = 1
    /\ hist.marks[1].position # hist.popped.position
    /\ \/ tape.head[1] < hist.popped.first
       \/ tape.head[Len(tape.head)] > hist.popped.last

\* A step that is a call of cattle_tape_pop_bookmark.
IsPop == ops' = ops + 1 /\ hist'.last = "pop_bookmark"

\* C11: cattle_tape_pop_bookmark on an empty stack returns FALSE and leaves
\* the whole tape as it was; on a non-empty stack it returns TRUE.
C11_PopOnEmptyStack ==
    [][IsPop =>
          /\ tape.bookmarks = <<>> => (~hist'.check /\ tape' = tape)
          /\ tape.bookmarks # <<>> => hist'.check]_vars

\* A failed pop on a tape that has grown, away from the start of its chunk,
\* with a cell written.
C11_Witness ==
    /\ hist.last = "pop_bookmark"
    /\ ~hist.check
    /\ tape.bookmarks = <<>>
    /\ Len(tape.head) > 1
    /\ tape.offset # 0
    /\ \E c \in DOMAIN tape.chunks : tape.chunks[c] # ZeroChunk

\* The cursor designates a cell of an allocated chunk.
CursorInside(t) ==
    /\ \E i \in 1 .. Len(t.head) : t.head[i] = t.current
    /\ t.current \in DOMAIN t.chunks
    /\ t.offset \in 0 .. (CHUNK_SIZE - 1)
    /\ DOMAIN t.chunks[t.current] = 0 .. (CHUNK_SIZE - 1)

\* The chunk list u is the chunk list t with one chunk c, reading 0
\* everywhere, linked at the left (side = "left") or right end, the cursor
\* being in it; the chunks of t are as they were.
GrewBy(t, u, side) ==
    \E c \in DOMAIN u.chunks \ DOMAIN t.chunks :
        /\ u.head = IF side = "left" THEN <<c>> \o t.head ELSE t.head \o <<c>>
        /\ DOMAIN u.chunks = DOMAIN t.chunks \cup {c}
        /\ \A o \in 0 .. (CHUNK_SIZE - 1) : u.chunks[c][o] = 0
        /\ \A d \in DOMAIN t.chunks : u.chunks[d] = t.chunks[d]
        /\ u.current = c

\* No chunk of t is missing from u, and they are in the same order.
ChunksKept(t, u) ==
    \E i \in 1 .. Len(u.head) :
        /\ i + Len(t.head) - 1 <= Len(u.head)
        /\ SubSeq(u.head, i, i + Len(t.head) - 1) = t.head

\* C12: the cursor is always on a cell of an allocated chunk; a move of one
\* cell past the left or right edge of the allocated region links exactly
\* one new chunk of zeroes at that end, any other move of one cell allocates
\* nothing; no step removes a chunk.
C12_CursorInsideAllocatedChunk ==
    [][/\ CursorInside(tape)
       /\ CursorInside(tape')
       /\ ChunksKept(tape, tape')
       /\ (ops' = ops + 1 /\ hist'.last = "move_left" /\ hist'.stride = 1) =>
            IF tape.offset = 0 /\ tape.current = tape.head[1]
            THEN GrewBy(tape, tape', "left")
            ELSE tape'.head = tape.head /\ tape'.chunks = tape.chunks
       /\ (ops' = ops + 1 /\ hist'.last = "move_right" /\ hist'.stride = 1) =>
            IF tape.offset = CHUNK_SIZE - 1 /\ tape.current = tape.head[Len(tape.head)]
            THEN GrewBy(tape, tape', "right")
            ELSE tape'.head = tape.head /\ tape'.chunks = tape.chunks
       /\ (ops' = ops + 1 /\ hist'.last \in {"push_bookmark", "pop_bookmark", "set_current_value"}) =>
            tape'.head = tape.head
      ]_vars

\* A move of one cell has just linked a third chunk, at the right end, after
\* a move of one cell had linked one at the left end.
C12_Witness ==
    /\ hist.last = "move_right"
    /\ hist.stride = 1
    /\ Len(tape.head) = 3
    /\ tape.current = tape.head[3]
    /\ tape.offset = 0
    /\ hist.leftmost = -1
    /\ hist.rightmost = CHUNK_SIZE

Min(a, b) == IF a < b THEN a ELSE b
Max(a, b) == IF a > b THEN a ELSE b

InFirstChunk(t) == IndexOf(t, t.current) = 1
InLastChunk(t) == IndexOf(t, t.current) = Len(t.head)

\* C13: cattle_tape_is_at_beginning holds exactly in the first chunk at offset
\* lower_limit, cattle_tape_is_at_end exactly in the last chunk at offset
\* upper_limit; a new tape is at both.  Left moves alone change lower_limit:
\* a prepended chunk sets it to CHUNK_SIZE - 1, and left steps that end in
\* the first chunk lower it to the offset reached.  Right moves alone change
\* upper_limit: an appended chunk sets it to 0, and right steps that end in
\* the last chunk raise it to the offset reached.
C13_LimitsTrackOuterChunks ==
    [][/\ cattle_tape_is_at_beginning(tape) <=>
            (InFirstChunk(tape) /\ tape.offset = tape.lower_limit)
       /\ cattle_tape_is_at_end(tape) <=>
            (InLastChunk(tape) /\ tape.offset = tape.upper_limit)
       /\ cattle_tape_is_at_beginning(tape') <=>
            (InFirstChunk(tape') /\ tape'.offset = tape'.lower_limit)
       /\ cattle_tape_is_at_end(tape') <=>
            (InLastChunk(tape') /\ tape'.offset = tape'.upper_limit)
       /\ hist.last = "init" =>
            (cattle_tape_is_at_beginning(tape) /\ cattle_tape_is_at_end(tape))
       /\ ops' = ops + 1 =>
            /\ tape'.lower_limit =
                 IF hist'.last # "move_left" \/ ~InFirstChunk(tape')
                 THEN tape.lower_limit
                 ELSE IF Len(tape'.head) > Len(tape.head)
                 THEN Min(CHUNK_SIZE - 1, tape'.offset)
                 ELSE Min(tape.lower_limit, tape'.offset)
            /\ tape'.upper_limit =
                 IF hist'.last # "move_right" \/ ~InLastChunk(tape')
                 THEN tape.upper_limit
                 ELSE IF Len(tape'.head) > Len(tape.head)
                 THEN Max(0, tape'.offset)
                 ELSE Max(tape.upper_limit, tape'.offset)
      ]_vars

\* Between two grown ends: a right step inside the first chunk, which is not
\* the last, has left upper_limit alone, and the tape is at neither end.
C13_Witness ==
    /\ hist.last = "move_right"
    /\ hist.stride = 1
    /\ hist.leftmost < 0
    /\ hist.rightmost >= CHUNK_SIZE
    /\ InFirstChunk(tape)
    /\ tape.offset > tape.upper_limit
    /\ tape.offset > tape.lower_limit
    /\ ~cattle_tape_is_at_beginning(tape)
    /\ ~cattle_tape_is_at_end(tape)

\* C14, as the code has it: the limits never under-report, nor over-report.
\* cattle_tape_is_at_beginning is true exactly on the leftmost cell the cursor
\* has ever been on, cattle_tape_is_at_end exactly on the rightmost.
C14_BoundaryReportIsExact ==
    /\ cattle_tape_is_at_beginning(tape) <=> (hist.position = hist.leftmost)
    /\ cattle_tape_is_at_end(tape) <=> (hist.position = hist.rightmost)

\* The tape has grown on both sides, and a pop has brought the cursor back
\* from elsewhere onto the leftmost cell: cattle_tape_is_at_beginning is true.
C14_Witness ==
    /\ hist.last = "pop_bookmark"
    /\ hist.check
    /\ hist.from # hist.position
    /\ tape.head[1] < 0
    /\ tape.head[Len(tape.head)] > 0
    /\ hist.position = hist.leftmost
    /\ cattle_tape_is_at_beginning(tape)

\* C14 as stated: an under-reporting state is reached, at the latest when all
\* the calls have been made.
C14_UnderReportIsReached ==
    ops = MaxTapeOps => (UnderReport \/ hist.under_reported)

\* The value the integer-indexed tape holds at position p.
AbstractValue(p) == IF p \in DOMAIN hist.cells THEN hist.cells[p] ELSE 0

\* The cell of t the cursor is on, and the value it holds.
CellOf(t) == <<t.current, t.offset, cattle_tape_get_current_value(t)>>

\* C33: the chunked tape is the integer-indexed tape: the cursor is on the
\* cell of the abstract position, cattle_tape_get_current_value is the value
\* written last at that position (0 if none was), every cell of every chunk
\* holds the value of its position and every position written lies in a
\* chunk; a move to the right followed by a move to the left, and a move to
\* the left followed by a move to the right, end on the cell they started
\* from, which holds the same value.
C33_TapeRefinesIntegerMap ==
    /\ Position(tape.current, tape.offset) = hist.position
    /\ cattle_tape_get_current_value(tape) = AbstractValue(hist.position)
    /\ \A k \in 1 .. Len(tape.head) : \A o \in 0 .. CHUNK_SIZE - 1 :
         tape.chunks[tape.head[k]][o] = AbstractValue(Position(tape.head[k], o))
    /\ \A p \in DOMAIN hist.cells :
         \E k \in 1 .. Len(tape.head) : p \div CHUNK_SIZE = tape.head[k]
    /\ CellOf(cattle_tape_move_left(cattle_tape_move_right(tape))) = CellOf(tape)
    /\ CellOf(cattle_tape_move_right(cattle_tape_move_left(tape))) = CellOf(tape)

\* A value written in the first chunk, another in a chunk prepended later, and
\* the cursor back over the chunk boundary on the first of them.
C33_Witness ==
    /\ hist.last = "move_right"
    /\ hist.stride = CHUNK_SIZE
    /\ hist.position \in DOMAIN hist.cells
    /\ hist.position - CHUNK_SIZE \in DOMAIN hist.cells
    /\ hist.position - CHUNK_SIZE < 0
    /\ cattle_tape_get_current_value(tape) = 1
    /\ Len(tape.head) >= 2

\* C35: cattle_tape_push_bookmark changes the bookmark stack and nothing
\* else, a cattle_tape_pop_bookmark that succeeds the cursor and the bookmark
\* stack and nothing else, cattle_tape_set_current_value the current cell and
\* nothing else; the limits and the list of chunks are the same after each.
C35_CallsTouchOnlyTheirPart ==
    [][ /\ hist'.last = "push_bookmark" =>
              /\ tape' = [tape EXCEPT !.bookmarks = tape'.bookmarks]
              /\ Len(tape'.bookmarks) = Len(tape.bookmarks) + 1
        /\ (hist'.last = "pop_bookmark" /\ hist'.check) =>
              /\ tape' = [tape EXCEPT !.bookmarks = tape'.bookmarks,
                                      !.current = tape'.current,
                                      !.offset = tape'.offset]
              /\ Len(tape'.bookmarks) = Len(tape.bookmarks) - 1
        /\ hist'.last = "set_current_value" =>
              tape' = [tape EXCEPT !.chunks[tape.current][tape.offset] =
                                       cattle_tape_get_current_value(tape')]
        /\ hist'.last \in {"push_bookmark", "pop_bookmark", "set_current_value"} =>
              /\ tape'.head = tape.head
              /\ DOMAIN tape'.chunks = DOMAIN tape.chunks
              /\ tape'.lower_limit = tape.lower_limit
              /\ tape'.upper_limit = tape.upper_limit ]_vars

\* A bookmark popped from another chunk than the one it was pushed in, after
\* a write since the push; a value lies in a chunk that is not the last, and
\* the last chunk has only its first cell inside the upper limit.
C35_Witness ==
    /\ hist.last = "pop_bookmark"
    /\ hist.check
    /\ hist.popped.wrote
    /\ hist.from \div CHUNK_SIZE # hist.popped.position \div CHUNK_SIZE
    /\ \E p \in DOMAIN hist.cells : p \div CHUNK_SIZE # tape.head[Len(tape.head)]
    /\ tape.upper_limit = 0

-----------------------------------------------------------------------------
(* One Read of quantity n against n Reads of quantity 1 *)

MaxReadQuantity == 2

ReadQuantities == 2 .. MaxReadQuantity
ReadOldValues == {0, 1}

\* The for loop of the Read case, n iterations to go, on the machine m: the
\* tape, the input session, the locals temp and success of run_real, and the
\* answers the "input-request" handler will give, in order.
RECURSIVE ReadFor(_, _, _)
ReadFor(m, n, program_input) ==
    IF n <= 0
    THEN m
    ELSE LET fetch == NeedsFetch(m.priv)
             cb    == IF fetch THEN Head(m.answers) ELSE NoCallback
             r     == ReadIteration(m.priv, program_input, cb)
             m1    == [m EXCEPT !.priv = r.priv,
                                !.temp = IF r.temp_set THEN r.temp ELSE @,
                                !.temp_set = @ \/ r.temp_set,
                                !.success = IF r.fetched THEN cb.ret ELSE @,
                                !.answers = IF fetch THEN Tail(@) ELSE @,
                                !.crash = r.crash]
         IN  IF r.broke \/ r.crash THEN m1 ELSE ReadFor(m1, n - 1, program_input)

\* case CATTLE_INSTRUCTION_READ as a whole: the for loop, then STEP 3.
ReadCase(m, quantity, program_input, on_eof_action, garbage) ==
    LET m1 == ReadFor(m, quantity, program_input)
    IN  IF m1.crash
        THEN m1
        ELSE [m1 EXCEPT !.tape = ReadStore(m1.tape,
                                           IF m1.temp_set THEN m1.temp ELSE garbage,
                                           on_eof_action),
                        !.uninitialized = @ \/ ~m1.temp_set]

\* run_real on a chain of count Read instructions of quantity 1:
\* do { ... } while (CATTLE_IS_INSTRUCTION (instruction) && success);
RECURSIVE ReadChain(_, _, _, _, _)
ReadChain(m, count, program_input, on_eof_action, garbage) ==
    LET m1 == ReadCase(m, 1, program_input, on_eof_action, garbage)
    IN  IF count <= 1 \/ ~m1.success \/ m1.crash
        THEN m1
        ELSE ReadChain(m1, count - 1, program_input, on_eof_action, garbage)

\* The machine as run_real is entered.
ReadStart ==
    [ tape          |-> tape,
      priv          |-> priv,
      temp          |-> 0,
      temp_set      |-> FALSE,
      success       |-> TRUE,
      answers       |-> hist.answers,
      crash         |-> FALSE,
      uninitialized |-> FALSE ]

\* A program that is one Read of quantity n, an interpreter whose run of it
\* has reached run_real, and the answers the handler is going to give.
InitRead ==
    /\ \E v \in ReadOldValues : tape = cattle_tape_set_current_value(cattle_tape_init, v)
    /\ \E q \in ReadQuantities, input \in ProgramInputs :
         /\ program = [instructions |-> <<Instruction("READ", q, 0, 0)>>,
                       root |-> 1, input |-> input]
         /\ priv = [cattle_interpreter_init EXCEPT
                        !.input_cursor = input,
                        !.had_input = IF input # NULL THEN TRUE ELSE @]
         /\ \E answers \in [1 .. q -> InputResults] :
              hist = [last |-> "init", answers |-> answers,
                      compressed |-> {}, expanded |-> {}]
    /\ \E a \in OnEofActions :
         configuration = [on_eof_action |-> a, debug_is_enabled |-> FALSE]
    /\ stack = <<>>
    /\ error = FALSE
    /\ result = "none"
    /\ ops = 0

\* The values STEP 3 may find in temp after the for loop on ReadStart.
Garbage(quantity) ==
    IF ReadFor(ReadStart, quantity, program.input).temp_set
    THEN {0} ELSE UninitializedValues

\* The program as loaded, one node of quantity n: every machine the run can
\* end in, one unless temp is read uninitialized.
ReadCompressed ==
    /\ hist.compressed = {}
    /\ hist' = [hist EXCEPT
                  !.last = "compressed",
                  !.compressed = { ReadCase(ReadStart, Instr(1).quantity, program.input,
                                            configuration.on_eof_action, garbage) :
                                       garbage \in Garbage(Instr(1).quantity) }]
    /\ UNCHANGED <<tape, program, configuration, priv, stack, error, result, ops>>

\* The same program written as n nodes of quantity 1.
ReadExpanded ==
    /\ hist.expanded = {}
    /\ hist' = [hist EXCEPT
                  !.last = "expanded",
                  !.expanded = { ReadChain(ReadStart, Instr(1).quantity, program.input,
                                           configuration.on_eof_action, garbage) :
                                     garbage \in Garbage(1) }]
    /\ UNCHANGED <<tape, program, configuration, priv, stack, error, result, ops>>

NextRead ==
    \/ ReadCompressed
    \/ ReadExpanded

SpecRead == InitRead /\ [][NextRead]_vars

\* C6: a Read of quantity n leaves the tape and the input session as n Reads
\* of quantity 1 on the same input leave them (the runs in which STEP 3 read
\* temp uninitialized set aside).
C6_ReadQuantityIsRepeatedRead ==
    \A c \in hist.compressed, e \in hist.expanded :
        (~c.uninitialized /\ ~e.uninitialized) =>
            (c.tape = e.tape /\ c.priv = e.priv)

-----------------------------------------------------------------------------
(* Loading a program: the parser, as the specification describes it *)

MaxTextLen == 3

\* The characters of a text are code points; InvalidUnit stands for bytes
\* that are not valid UTF-8.
InvalidUnit == -1
Sentinel == 33
OperatorValue ==
    (43 :> "INCREASE") @@ (45 :> "DECREASE") @@ (60 :> "MOVE_LEFT") @@
    (62 :> "MOVE_RIGHT") @@ (46 :> "PRINT") @@ (44 :> "READ") @@
    (91 :> "LOOP_BEGIN") @@ (93 :> "LOOP_END") @@ (35 :> "DUMP_TAPE")
Operators == DOMAIN OperatorValue
Brackets == {91, 93}

\* + , [ ] ! and a comment character
Alphabet == {43, 44, 91, 93, Sentinel, 120}

\* "[[]]", "+++>-<[-]", ",[+.,]!some input", a few longer texts, and texts
\* that are not valid UTF-8
Examples ==
    { <<91, 91, 93, 93>>,
      <<43, 43, 43, 62, 45, 60, 91, 45, 93>>,
      <<44, 91, 43, 46, 44, 93, 33, 115, 111, 109, 101, 32, 105, 110, 112, 117, 116>>,
      <<43, 91, 93, 33, 93, 33, 10>>,
      <<43, 91, 33, 93>>,
      <<91, 43, 93, 93, 91>>,
      <<91, 43, 43, 120, 43, 93, 44, 44>>,
      <<InvalidUnit>>,
      <<93, InvalidUnit>>,
      <<91, InvalidUnit>>,
      <<Sentinel, InvalidUnit>>,
      <<43, 91, 93, InvalidUnit>> }

RECURSIVE SeqsUpTo(_, _)
SeqsUpTo(S, n) ==
    IF n = 0 THEN {<<>>}
    ELSE LET shorter == SeqsUpTo(S, n - 1)
         IN  shorter \cup { Append(t, c) : t \in shorter, c \in S }

Texts == SeqsUpTo(Alphabet, MaxTextLen) \cup Examples

g_utf8_validate(text) == \A i \in 1 .. Len(text) : text[i] # InvalidUnit

\* The index of the first sentinel of the text, 0 if it has none.
FirstSentinel(text) ==
    IF \E i \in 1 .. Len(text) : text[i] = Sentinel
    THEN CHOOSE i \in 1 .. Len(text) :
             text[i] = Sentinel /\ \A j \in 1 .. (i - 1) : text[j] # Sentinel
    ELSE 0

\* A variant of SourcePart that scans the whole text, a sentinel being a
\* comment.
SourcePartWholeText(text) == text

\* What is scanned: the text before its first sentinel.
SourcePart(text) ==
    IF FirstSentinel(text) = 0 THEN text
    ELSE SubSeq(text, 1, FirstSentinel(text) - 1)

\* A variant of InputPart that takes the text after the last sentinel.
InputPartAfterLast(text) ==
    IF FirstSentinel(text) = 0 THEN NULL
    ELSE LET last == CHOOSE i \in 1 .. Len(text) :
                         text[i] = Sentinel /\ \A j \in (i + 1) .. Len(text) : text[j] # Sentinel
         IN  SubSeq(text, last + 1, Len(text))

\* The literal input: the text after its first sentinel, NULL without one.
InputPart(text) ==
    IF FirstSentinel(text) = 0 THEN NULL
    ELSE SubSeq(text, FirstSentinel(text) + 1, Len(text))

\* The parser before the first character: no node yet, the first node will
\* be the root, no loop open.  at says where the next node is linked: as the
\* next or as the loop of a node, or as the root.
ScanInit ==
    [ nodes |-> <<>>,
      at    |-> [node |-> 0, edge |-> "root"],
      stack |-> <<>>,
      prev  |-> 0,
      error |-> "none" ]

\* A node of quantity 1 appended to the chain being built.
AppendNode(st, value) ==
    LET k      == Len(st.nodes) + 1
        linked == CASE st.at.edge = "next" -> [st.nodes EXCEPT ![st.at.node].next = k]
                    [] st.at.edge = "loop" -> [st.nodes EXCEPT ![st.at.node].loop = k]
                    [] OTHER               -> st.nodes
    IN  [st EXCEPT !.nodes = Append(linked, Instruction(value, 1, 0, 0)),
                   !.at = [node |-> k, edge |-> "next"]]

\* A variant of ScanChar that merges an operator into the last node of the
\* chain when that node has the same value, comments in between or not.
ScanCharMergeAcrossComments(st, c) ==
    IF c \notin Operators
    THEN st
    ELSE IF c = 91
    THEN LET a == AppendNode(st, "LOOP_BEGIN")
         IN  [a EXCEPT !.stack = <<a.at.node>> \o @,
                       !.at = [node |-> a.at.node, edge |-> "loop"],
                       !.prev = c]
    ELSE IF c = 93
    THEN IF st.stack = <<>>
         THEN [st EXCEPT !.error = "UNMATCHED_BRACKET"]
         ELSE LET a == AppendNode(st, "LOOP_END")
              IN  [a EXCEPT !.stack = Tail(@),
                            !.at = [node |-> Head(st.stack), edge |-> "next"],
                            !.prev = c]
    ELSE IF st.at.edge = "next" /\ st.nodes[st.at.node].value = OperatorValue[c]
    THEN [st EXCEPT !.nodes[st.at.node].quantity = @ + 1]
    ELSE [AppendNode(st, OperatorValue[c]) EXCEPT !.prev = c]

\* A variant of ScanChar that, after a `]`, goes on from the loop edge of the
\* LoopBegin, where the body hangs.
ScanCharResumeInLoop(st, c) ==
    IF c \notin Operators
    THEN [st EXCEPT !.prev = c]
    ELSE IF c = 91
    THEN LET a == AppendNode(st, "LOOP_BEGIN")
         IN  [a EXCEPT !.stack = <<a.at.node>> \o @,
                       !.at = [node |-> a.at.node, edge |-> "loop"],
                       !.prev = c]
    ELSE IF c = 93
    THEN IF st.stack = <<>>
         THEN [st EXCEPT !.error = "UNMATCHED_BRACKET"]
         ELSE LET a == AppendNode(st, "LOOP_END")
              IN  [a EXCEPT !.stack = Tail(@),
                            !.at = [node |-> Head(st.stack), edge |-> "loop"],
                            !.prev = c]
    ELSE IF c = st.prev
    THEN [st EXCEPT !.nodes[st.at.node].quantity = @ + 1]
    ELSE [AppendNode(st, OperatorValue[c]) EXCEPT !.prev = c]

\* A variant of ScanChar that links what follows a loop after the LoopEnd.
ScanCharNextOfLoopEnd(st, c) ==
    IF c \notin Operators
    THEN [st EXCEPT !.prev = c]
    ELSE IF c = 91
    THEN LET a == AppendNode(st, "LOOP_BEGIN")
         IN  [a EXCEPT !.stack = <<a.at.node>> \o @,
                       !.at = [node |-> a.at.node, edge |-> "loop"],
                       !.prev = c]
    ELSE IF c = 93
    THEN IF st.stack = <<>>
         THEN [st EXCEPT !.error = "UNMATCHED_BRACKET"]
         ELSE LET a == AppendNode(st, "LOOP_END")
              IN  [a EXCEPT !.stack = Tail(@), !.prev = c]
    ELSE IF c = st.prev
    THEN [st EXCEPT !.nodes[st.at.node].quantity = @ + 1]
    ELSE [AppendNode(st, OperatorValue[c]) EXCEPT !.prev = c]

\* One character scanned.  A comment is skipped; `[` appends a LoopBegin and
\* opens its loop chain; `]` appends a LoopEnd to the loop chain and resumes
\* the chain of the LoopBegin, or fails if no loop is open; another operator
\* joins the node of the character just before it if that was the same
\* operator, and is a new node otherwise.
ScanChar(st, c) ==
    IF c \notin Operators
    THEN [st EXCEPT !.prev = c]
    ELSE IF c = 91
    THEN LET a == AppendNode(st, "LOOP_BEGIN")
         IN  [a EXCEPT !.stack = <<a.at.node>> \o @,
                       !.at = [node |-> a.at.node, edge |-> "loop"],
                       !.prev = c]
    ELSE IF c = 93
    THEN IF st.stack = <<>>
         THEN [st EXCEPT !.error = "UNMATCHED_BRACKET"]
         ELSE LET a == AppendNode(st, "LOOP_END")
              IN  [a EXCEPT !.stack = Tail(@),
                            !.at = [node |-> Head(st.stack), edge |-> "next"],
                            !.prev = c]
    ELSE IF c = st.prev
    THEN [st EXCEPT !.nodes[st.at.node].quantity = @ + 1]
    ELSE [AppendNode(st, OperatorValue[c]) EXCEPT !.prev = c]

\* The characters of src scanned from the i-th on, until one fails.
RECURSIVE Scan(_, _, _)
Scan(st, src, i) ==
    IF i > Len(src) \/ st.error # "none"
    THEN st
    ELSE Scan(ScanChar(st, src[i]), src, i + 1)

\* The Program a failed load, or the load of an empty program, leaves.
EmptyProgram ==
    [instructions |-> ProgEmpty, root |-> 1, input |-> NULL]

\* A variant of cattle_program_load that, when it fails, leaves what it has
\* built.
cattle_program_load_keep_partial(text) ==
    IF ~g_utf8_validate(text)
    THEN [program |-> EmptyProgram, code |-> "BAD_UTF8"]
    ELSE LET st == Scan(ScanInit, SourcePart(text), 1)
             built == [instructions |-> IF st.nodes = <<>> THEN ProgEmpty ELSE st.nodes,
                       root |-> 1, input |-> InputPart(text)]
         IN  IF st.error # "none"
             THEN [program |-> built, code |-> st.error]
             ELSE IF st.stack # <<>>
             THEN [program |-> built, code |-> "UNBALANCED_BRACKETS"]
             ELSE [program |-> built, code |-> "success"]

\* A variant of cattle_program_load that yields an empty chain, with no
\* node, when nothing was scanned.
cattle_program_load_no_noop(text) ==
    IF ~g_utf8_validate(text)
    THEN [program |-> EmptyProgram, code |-> "BAD_UTF8"]
    ELSE LET st == Scan(ScanInit, SourcePart(text), 1)
         IN  IF st.error # "none"
             THEN [program |-> EmptyProgram, code |-> st.error]
             ELSE IF st.stack # <<>>
             THEN [program |-> EmptyProgram, code |-> "UNBALANCED_BRACKETS"]
             ELSE [program |-> [instructions |-> st.nodes, root |-> 1,
                                input |-> InputPart(text)],
                   code |-> "success"]

\* load: the Program afterwards, and "success" or the error code.
cattle_program_load(text) ==
    IF ~g_utf8_validate(text)
    THEN [program |-> EmptyProgram, code |-> "BAD_UTF8"]
    ELSE LET st == Scan(ScanInit, SourcePart(text), 1)
         IN  IF st.error # "none"
             THEN [program |-> EmptyProgram, code |-> st.error]
             ELSE IF st.stack # <<>>
             THEN [program |-> EmptyProgram, code |-> "UNBALANCED_BRACKETS"]
             ELSE [program |-> [instructions |-> IF st.nodes = <<>> THEN ProgEmpty
                                                 ELSE st.nodes,
                                root |-> 1,
                                input |-> InputPart(text)],
                   code |-> "success"]

\* A Program as constructed, and the loads made into it, one after the other.
InitLoad ==
    /\ tape = cattle_tape_init
    /\ program = EmptyProgram
    /\ configuration = [on_eof_action |-> "STORE_ZERO", debug_is_enabled |-> FALSE]
    /\ priv = cattle_interpreter_init
    /\ stack = <<>>
    /\ error = FALSE
    /\ result = "none"
    /\ hist = [last |-> "init", text |-> <<>>, loaded |-> FALSE]
    /\ ops = 0

\* hist.loaded: a load before the last one has succeeded.
Load ==
    /\ \E text \in Texts :
         LET r == cattle_program_load(text)
         IN  /\ program' = r.program
             /\ result' = r.code
             /\ error' = (r.code # "success")
             /\ hist' = [last |-> "load", text |-> text,
                         loaded |-> (hist.loaded \/ result = "success")]
    /\ UNCHANGED <<tape, configuration, priv, stack, ops>>

NextLoad == Load

SpecLoad == InitLoad /\ [][NextLoad]_vars

\* The last step was a load of hist.text.
Loaded == hist.last = "load"
LoadFailed == Loaded /\ result # "success"
LoadSucceeded == Loaded /\ result = "success"

\* C15: after a load that failed, whatever the error and whatever the
\* Program held before, the Program is one NoOp node with no next and no loop
\* and has no input; loading "[" fails with UnbalancedBrackets.
C15_FailedLoadLeavesEmptyProgram ==
    /\ LoadFailed =>
         /\ result \in {"BAD_UTF8", "UNMATCHED_BRACKET", "UNBALANCED_BRACKETS"}
         /\ program = [instructions |-> <<[value |-> "NONE", quantity |-> 1,
                                           next |-> 0, loop |-> 0]>>,
                       root |-> 1, input |-> NULL]
    /\ (Loaded /\ hist.text = <<91>>) => result = "UNBALANCED_BRACKETS"

\* A load that fails with a loop half built, into a Program that an earlier
\* load had filled.
C15_Witness ==
    /\ LoadFailed
    /\ hist.loaded
    /\ hist.text = <<43, 91, 43>>
    /\ result = "UNBALANCED_BRACKETS"

\* The positions of the text before its first `!`.
BeforeSentinel(text) ==
    { i \in 1 .. Len(text) : \A j \in 1 .. i : text[j] # 33 }

\* How many of the positions of P up to i hold c.
CountUpTo(text, P, i, c) == Cardinality({ j \in P : j <= i /\ text[j] = c })

\* A `]` before the first `!` with no loop open: the first position where
\* the `]` so far outnumber the `[`.
HasUnmatchedBracket(text) ==
    LET P == BeforeSentinel(text)
    IN  \E i \in P : text[i] = 93 /\ CountUpTo(text, P, i, 93) > CountUpTo(text, P, i, 91)

\* More `[` than `]` before the first `!`.
HasOpenLoop(text) ==
    LET P == BeforeSentinel(text)
    IN  CountUpTo(text, P, Len(text), 91) > CountUpTo(text, P, Len(text), 93)

RECURSIVE ChainFrom(_, _)
ChainFrom(N, k) ==
    IF k = 0 THEN <<>> ELSE <<k>> \o ChainFrom(N, N[k].next)

\* The chain c holds exactly one LoopEnd: its last node.
EndsInOneLoopEnd(N, c) ==
    /\ c # <<>>
    /\ N[c[Len(c)]].value = "LOOP_END"
    /\ N[c[Len(c)]].next = 0
    /\ \A i \in 1 .. (Len(c) - 1) : N[c[i]].value # "LOOP_END"

\* C17: in a loaded tree a node has a loop edge exactly if it is a LoopBegin;
\* the loop chain of a LoopBegin holds one LoopEnd, its last node, whose next
\* is none; the next of a LoopBegin is the node made from what follows its
\* `]` in the source, none if nothing does; the top-level chain holds no
\* LoopEnd.  "[[]]" gives LoopBegin{loop: LoopBegin{loop: LoopEnd} LoopEnd}.
C17_LoopShape ==
    LoadSucceeded =>
        LET N == program.instructions
        IN  /\ \A k \in 1 .. Len(N) : (N[k].loop # 0) <=> (N[k].value = "LOOP_BEGIN")
            /\ \A k \in 1 .. Len(N) :
                 N[k].value = "LOOP_BEGIN" =>
                    LET c == ChainFrom(N, N[k].loop)
                        e == c[Len(c)]
                    IN  /\ EndsInOneLoopEnd(N, c)
                        /\ N[k].next = IF e < Len(N) THEN e + 1 ELSE 0
            /\ \A i \in 1 .. Len(ChainFrom(N, program.root)) :
                 N[ChainFrom(N, program.root)[i]].value # "LOOP_END"
            /\ hist.text = <<91, 91, 93, 93>> =>
                 N = << [value |-> "LOOP_BEGIN", quantity |-> 1, next |-> 0, loop |-> 2],
                        [value |-> "LOOP_BEGIN", quantity |-> 1, next |-> 4, loop |-> 3],
                        [value |-> "LOOP_END",   quantity |-> 1, next |-> 0, loop |-> 0],
                        [value |-> "LOOP_END",   quantity |-> 1, next |-> 0, loop |-> 0] >>

\* "[[]]" has been loaded.
C17_Witness ==
    /\ LoadSucceeded
    /\ hist.text = <<91, 91, 93, 93>>
    /\ Len(program.instructions) = 4

\* The positions before the first `!` where a node starts: a bracket, or an
\* operator that the character just before it is not.
NodeStarts(text) ==
    { i \in BeforeSentinel(text) :
        /\ text[i] \in {43, 45, 60, 62, 46, 44, 35, 91, 93}
        /\ (text[i] \in {91, 93} \/ i = 1 \/ text[i - 1] # text[i]) }

\* The length of the run of the character at i that starts at i.
RunLength(text, i) ==
    Cardinality({ j \in i .. Len(text) : \A m \in i .. j : text[m] = text[i] })

ValueOfChar(c) ==
    CASE c = 43 -> "INCREASE"   [] c = 45 -> "DECREASE"
      [] c = 60 -> "MOVE_LEFT"  [] c = 62 -> "MOVE_RIGHT"
      [] c = 46 -> "PRINT"      [] c = 44 -> "READ"
      [] c = 35 -> "DUMP_TAPE"  [] c = 91 -> "LOOP_BEGIN"
      [] c = 93 -> "LOOP_END"

\* C18: the nodes of a loaded tree are, in the order of the source, one per
\* maximal run of adjacent identical non-bracket operators, with the run
\* length as quantity, and one of quantity 1 per bracket.  "+++>-<[-]" gives
\* Increase(3) MoveRight(1) Decrease(1) MoveLeft(1) LoopBegin(1){Decrease(1)
\* LoopEnd(1)}.
C18_RunsBecomeNodes ==
    LoadSucceeded =>
        LET N == program.instructions
            S == NodeStarts(hist.text)
        IN  /\ S # {} =>
                 /\ Len(N) = Cardinality(S)
                 /\ \A i \in S :
                      LET k == Cardinality({ j \in S : j <= i })
                      IN  /\ N[k].value = ValueOfChar(hist.text[i])
                          /\ N[k].quantity = IF hist.text[i] \in {91, 93} THEN 1
                                             ELSE RunLength(hist.text, i)
            /\ hist.text = <<43, 43, 43, 62, 45, 60, 91, 45, 93>> =>
                 N = << [value |-> "INCREASE",   quantity |-> 3, next |-> 2, loop |-> 0],
                        [value |-> "MOVE_RIGHT", quantity |-> 1, next |-> 3, loop |-> 0],
                        [value |-> "DECREASE",   quantity |-> 1, next |-> 4, loop |-> 0],
                        [value |-> "MOVE_LEFT",  quantity |-> 1, next |-> 5, loop |-> 0],
                        [value |-> "LOOP_BEGIN", quantity |-> 1, next |-> 0, loop |-> 6],
                        [value |-> "DECREASE",   quantity |-> 1, next |-> 7, loop |-> 0],
                        [value |-> "LOOP_END",   quantity |-> 1, next |-> 0, loop |-> 0] >>

\* "[++x+],," has been loaded: a run of two, a comment, a run of one of the
\* same operator, and a run of two after a bracket.
C18_Witness ==
    /\ LoadSucceeded
    /\ hist.text = <<91, 43, 43, 120, 43, 93, 44, 44>>
    /\ Len(program.instructions) = 5

\* C19: after a successful load of a text with a `!`, the literal input is
\* the text after the first `!`, character for character, further `!`,
\* operators and newlines included, and the tree has the nodes of the part
\* before it only; after a successful load of a text without `!` there is no
\* literal input.  ",[+.,]!some input" has the input "some input" and the
\* root Read.
C19_InputIsTextAfterFirstSentinel ==
    LoadSucceeded =>
        LET text == hist.text
            N == program.instructions
        IN  /\ (\A i \in 1 .. Len(text) : text[i] # 33) => program.input = NULL
            /\ \A i \in 1 .. Len(text) :
                 (text[i] = 33 /\ \A j \in 1 .. (i - 1) : text[j] # 33) =>
                    /\ program.input = [j \in 1 .. (Len(text) - i) |-> text[i + j]]
                    /\ Len(N) = Max(1, Cardinality({ k \in NodeStarts(text) : k < i }))
            /\ text = <<44, 91, 43, 46, 44, 93, 33, 115, 111, 109, 101, 32, 105, 110, 112, 117, 116>> =>
                 /\ program.input = <<115, 111, 109, 101, 32, 105, 110, 112, 117, 116>>
                 /\ N[program.root].value = "READ"
                 /\ Len(N) = 6

\* "+[]!]!\n" has been loaded: the input "]!\n" holds a bracket, a second `!`
\* and a newline, and the tree the three nodes of "+[]".
C19_Witness ==
    /\ LoadSucceeded
    /\ hist.text = <<43, 91, 93, 33, 93, 33, 10>>
    /\ program.input = <<93, 33, 10>>
    /\ Len(program.instructions) = 3

\* C20: loading a text with no operator character before its first `!`, the
\* empty text among them, succeeds with a tree of one NoOp node that has no
\* next and no loop.
C20_NoOperatorGivesNoOp ==
    (Loaded /\ g_utf8_validate(hist.text)
        /\ \A i \in BeforeSentinel(hist.text) :
              hist.text[i] \notin {43, 45, 60, 62, 46, 44, 35, 91, 93}) =>
        /\ result = "success"
        /\ program.root = 1
        /\ program.instructions =
              << [value |-> "NONE", quantity |-> 1, next |-> 0, loop |-> 0] >>

\* A comment, then `!`, then an operator in the input has been loaded, after
\* the empty text or another text had been.
C20_Witness ==
    /\ LoadSucceeded
    /\ hist.text = <<120, 33, 43>>
    /\ hist.loaded
    /\ Len(program.instructions) = 1

\* The tree of nodes N walked from node k in the order of execution: the
\* node, as many times as its quantity (a NoOp not at all), then its loop
\* chain, then its next.
RECURSIVE Unfold(_, _)
Unfold(N, k) ==
    IF k = 0 THEN <<>>
    ELSE (IF N[k].value = "NONE" THEN <<>>
          ELSE [i \in 1 .. N[k].quantity |-> N[k].value])
         \o Unfold(N, N[k].loop) \o Unfold(N, N[k].next)

\* The operators of a text, in the order of the text: its characters before
\* the first `!` that are one of + - < > . , # [ ], each as its operator.
RECURSIVE OperatorsOf(_)
OperatorsOf(text) ==
    IF text = <<>> \/ Head(text) = 33 THEN <<>>
    ELSE IF Head(text) \in {43, 45, 60, 62, 46, 44, 35, 91, 93}
    THEN <<ValueOfChar(Head(text))>> \o OperatorsOf(Tail(text))
    ELSE OperatorsOf(Tail(text))

\* C37: the tree of a text loaded with success, walked in the order of
\* execution with each node repeated as its quantity says, is the sequence of
\* the operators of the text before its first `!`, comments left out.
C37_TreeUnfoldsToSource ==
    LoadSucceeded =>
        /\ Unfold(program.instructions, program.root) = OperatorsOf(hist.text)
        /\ hist.text = <<91, 43, 43, 120, 43, 93, 44, 44>> =>
             Unfold(program.instructions, program.root) =
                << "LOOP_BEGIN", "INCREASE", "INCREASE", "INCREASE", "LOOP_END",
                   "READ", "READ" >>
        /\ hist.text = <<43, 91, 93, 33, 93, 33, 10>> =>
             Unfold(program.instructions, program.root) =
                << "INCREASE", "LOOP_BEGIN", "LOOP_END" >>

\* A loop whose body is a run with a comment in it, and a run after the loop.
C37_Witness ==
    /\ LoadSucceeded
    /\ hist.text = <<91, 43, 43, 120, 43, 93, 44, 44>>
    /\ Len(program.instructions) = 5
    /\ program.instructions[1].next = 5
    /\ program.instructions[5].quantity = 2

-----------------------------------------------------------------------------
(* The documented Debug Request handler: debug_handler of the I/O handling
   chapter, run on tapes a program has moved and written on *)

MaxDebugOps == 5

\* The handler is not running, the program prepares the tape.
Preparing == stack = <<>> /\ ops < MaxDebugOps

DebugHistInit ==
    [ last     |-> "init",
      before   |-> cattle_tape_init,  \* the tape when the signal was emitted
      moved    |-> 0,                 \* moves the handler has made
      returned |-> 0 ]                \* handlers that have returned

InitDebug ==
    /\ tape = cattle_tape_init
    /\ program = [instructions |-> ProgMoves, root |-> 1, input |-> NULL]
    /\ configuration = [on_eof_action |-> "STORE_ZERO", debug_is_enabled |-> TRUE]
    /\ priv = cattle_interpreter_init
    /\ stack = <<>>
    /\ error = FALSE
    /\ result = "none"
    /\ hist = DebugHistInit
    /\ ops = 0

\* What the program does to the tape between two emissions.
DebugMoveLeft ==
    /\ Preparing
    /\ \E n \in TapeStrides : tape' = MoveLeftTimes(tape, n)
    /\ hist' = [hist EXCEPT !.last = "move_left"]
    /\ ops' = ops + 1
    /\ UNCHANGED <<program, configuration, priv, stack, error, result>>

DebugMoveRight ==
    /\ Preparing
    /\ \E n \in TapeStrides : tape' = MoveRightTimes(tape, n)
    /\ hist' = [hist EXCEPT !.last = "move_right"]
    /\ ops' = ops + 1
    /\ UNCHANGED <<program, configuration, priv, stack, error, result>>

DebugSetCurrentValue ==
    /\ Preparing
    /\ cattle_tape_get_current_value(tape) = 0
    /\ \E v \in TapeValues : tape' = cattle_tape_set_current_value(tape, v)
    /\ hist' = [hist EXCEPT !.last = "set_current_value"]
    /\ ops' = ops + 1
    /\ UNCHANGED <<program, configuration, priv, stack, error, result>>

\* A bookmark a client has pushed and not popped when the signal is emitted.
DebugPushBookmark ==
    /\ Preparing
    /\ Len(tape.bookmarks) < MaxBookmarks - 1
    /\ tape' = cattle_tape_push_bookmark(tape)
    /\ hist' = [hist EXCEPT !.last = "push_bookmark"]
    /\ ops' = ops + 1
    /\ UNCHANGED <<program, configuration, priv, stack, error, result>>

\* g_signal_emit (DEBUG_REQUEST): the handler is entered.
EmitDebugRequest ==
    /\ Preparing
    /\ stack' = << [handler |-> "debug_handler", pc |-> "push"] >>
    /\ hist' = [hist EXCEPT !.last = "emit", !.before = tape, !.moved = 0]
    /\ ops' = ops + 1
    /\ UNCHANGED <<tape, program, configuration, priv, error, result>>

AtHandler(pc) == stack # <<>> /\ stack[1].pc = pc

\* A variant of HandlerPush: a handler that does not save the position.
HandlerNoPush ==
    /\ AtHandler("push")
    /\ stack' = << [stack[1] EXCEPT !.pc = "rewind"] >>
    /\ hist' = [hist EXCEPT !.last = "handler_push"]
    /\ UNCHANGED <<tape, program, configuration, priv, error, result, ops>>

\* cattle_tape_push_bookmark (tape);
HandlerPush ==
    /\ AtHandler("push")
    /\ tape' = cattle_tape_push_bookmark(tape)
    /\ stack' = << [stack[1] EXCEPT !.pc = "rewind"] >>
    /\ hist' = [hist EXCEPT !.last = "handler_push"]
    /\ UNCHANGED <<program, configuration, priv, error, result, ops>>

\* while (!cattle_tape_is_at_beginning (tape)) cattle_tape_move_left (tape);
HandlerRewind ==
    /\ AtHandler("rewind")
    /\ IF cattle_tape_is_at_beginning(tape)
       THEN /\ stack' = << [stack[1] EXCEPT !.pc = "walk"] >>
            /\ UNCHANGED <<tape, hist>>
       ELSE /\ tape' = cattle_tape_move_left(tape)
            /\ hist' = [hist EXCEPT !.last = "handler_move_left", !.moved = @ + 1]
            /\ UNCHANGED stack
    /\ UNCHANGED <<program, configuration, priv, error, result, ops>>

\* while (!cattle_tape_is_at_end (tape)) { ... cattle_tape_move_right (tape); }
HandlerWalk ==
    /\ AtHandler("walk")
    /\ IF cattle_tape_is_at_end(tape)
       THEN /\ stack' = << [stack[1] EXCEPT !.pc = "pop"] >>
            /\ UNCHANGED <<tape, hist>>
       ELSE /\ tape' = cattle_tape_move_right(tape)
            /\ hist' = [hist EXCEPT !.last = "handler_move_right", !.moved = @ + 1]
            /\ UNCHANGED stack
    /\ UNCHANGED <<program, configuration, priv, error, result, ops>>

\* cattle_tape_pop_bookmark (tape); return TRUE;
HandlerPop ==
    /\ AtHandler("pop")
    /\ tape' = cattle_tape_pop_bookmark(tape).tape
    /\ stack' = <<>>
    /\ hist' = [hist EXCEPT !.last = "handler_returned", !.returned = @ + 1]
    /\ UNCHANGED <<program, configuration, priv, error, result, ops>>

NextDebug ==
    \/ DebugMoveLeft
    \/ DebugMoveRight
    \/ DebugSetCurrentValue
    \/ DebugPushBookmark
    \/ EmitDebugRequest
    \/ HandlerPush
    \/ HandlerRewind
    \/ HandlerWalk
    \/ HandlerPop

SpecDebug == InitDebug /\ [][NextDebug]_vars

MaxTraverseOps == 4

NextTraverse ==
    \/ ops < MaxTraverseOps /\ DebugMoveLeft
    \/ ops < MaxTraverseOps /\ DebugMoveRight
    \/ ops < MaxTraverseOps /\ DebugSetCurrentValue
    \/ ops < MaxTraverseOps /\ DebugPushBookmark
    \/ ops < MaxTraverseOps /\ EmitDebugRequest
    \/ HandlerPush
    \/ HandlerRewind
    \/ HandlerWalk
    \/ HandlerPop

\* The handler is straight-line code on the thread that emitted the signal:
\* a loop of it that can make a step makes it.
SpecDebugFair ==
    /\ InitDebug
    /\ [][NextTraverse]_vars
    /\ WF_vars(HandlerRewind)
    /\ WF_vars(HandlerWalk)

\* The limits and the chunks of t are those of u.
SameExtent(t, u) ==
    /\ t.head = u.head
    /\ DOMAIN t.chunks = DOMAIN u.chunks
    /\ t.lower_limit = u.lower_limit
    /\ t.upper_limit = u.upper_limit

\* C34: from every tape the loop "while not at the beginning, move left"
\* comes to its end, and so does the loop "while not at the end, move right"
\* run after it; while they run the tape has the chunks and the limits it had
\* before, and the first ends on the beginning, the second on the end.
C34_TraversalTerminates ==
    /\ AtHandler("rewind") ~> AtHandler("walk")
    /\ AtHandler("walk") ~> AtHandler("pop")
    /\ [](stack # <<>> => SameExtent(tape, hist.before))
    /\ [](AtHandler("pop") => cattle_tape_is_at_end(tape))

\* Both loops have run to their end over more than a chunk, on a tape whose
\* limits are inside their chunks and whose cursor was at neither end.
C34_Witness ==
    /\ AtHandler("pop")
    /\ hist.moved > CHUNK_SIZE
    /\ Len(tape.head) >= 2
    /\ tape.lower_limit > 0
    /\ tape.upper_limit < CHUNK_SIZE - 1
    /\ ~cattle_tape_is_at_beginning(hist.before)
    /\ ~cattle_tape_is_at_end(hist.before)

-----------------------------------------------------------------------------
(* One interpreter run several times, its program replaced between runs *)

MaxSessionRuns == 2
MaxPrograms == 2

\* ,>
ProgReadMove ==
    << Instruction("READ", 1, 2, 0),
       Instruction("MOVE_RIGHT", 1, 0, 0) >>

SessionPrograms ==
    [instructions : {ProgReadMove}, root : {1}, input : {NULL, <<>>, <<97>>}]

InitSession ==
    /\ tape = cattle_tape_init
    /\ program \in SessionPrograms
    /\ configuration \in [on_eof_action : OnEofActions, debug_is_enabled : {FALSE}]
    /\ priv = cattle_interpreter_init
    /\ stack = <<>>
    /\ error = FALSE
    /\ result = "none"
    /\ hist = HistInit
    /\ ops = 0

\* The process is alive and no run is under way.
Idle == stack = <<>> /\ result # "crashed"

SessionRun ==
    /\ Idle
    /\ ops < MaxSessionRuns
    /\ cattle_interpreter_run

\* cattle_interpreter_set_program with another program, or a load or
\* cattle_program_set_input that changes the program the interpreter holds.
SetProgram ==
    /\ Idle
    /\ hist.programs < MaxPrograms
    /\ \E p \in SessionPrograms \ {program} : program' = p
    /\ hist' = [HistLast(hist, "set_program") EXCEPT !.programs = @ + 1]
    /\ UNCHANGED <<tape, configuration, priv, stack, error, result, ops>>

NextSession ==
    \/ SessionRun
    \/ SetProgram
    \/ StepReadIter
    \/ StepReadStore
    \/ StepMoveRight
    \/ Return

SpecSession == InitSession /\ [][NextSession]_vars

\* C24: every run() starts the program again at its root, on the tape as the
\* run before left it, with the cursor on the first character of the
\* program's literal input; the first Read of every run of the one program an
\* interpreter was given consumes that first character.
C24_EveryRunStartsOver ==
    [][ /\ hist'.last = "run" =>
              /\ stack' = <<NewFrame(program.root)>>
              /\ tape' = tape
              /\ program' = program
              /\ priv'.input_cursor = program.input
        /\ (hist.last = "run" /\ hist'.last = "read_iter"
               /\ hist.programs = 1 /\ program.input \notin {NULL, <<>>}) =>
              /\ hist'.cb = "none"
              /\ stack' # <<>>
              /\ stack'[1].temp = ToGchar(program.input[1])
              /\ priv'.input_cursor = Tail(program.input) ]_vars

\* The program ,> with the literal input "a" has run twice: the first run
\* has left "a" in the first cell, the second, started on the second cell,
\* has read "a" again.
C24_Witness ==
    /\ ops = 2
    /\ result = "success"
    /\ hist.programs = 1
    /\ program.input = <<97>>
    /\ tape.chunks[0][0] = 97
    /\ tape.chunks[0][1] = 97
    /\ tape.offset = 2

\* C29: at every Read, had_input is true if and only if the program being
\* run carries literal input.
C29_HadInputFlagIsCurrent ==
    [][ hist'.last = "read_iter" =>
          (priv.had_input <=> program.input # NULL) ]_vars

\* C30: once end_of_input_reached is set nothing clears it, neither a Read
\* nor a later run nor a new program; from then on no Read invokes the Input
\* Request handler and every Read gets EOF.
C30_EndOfInputIsFinal ==
    [][ priv.end_of_input_reached =>
          /\ priv'.end_of_input_reached
          /\ hist'.cb # "input"
          /\ hist'.last = "read_iter" =>
                /\ result' # "crashed"
                /\ stack'[Len(stack')].temp = EOF ]_vars

\* The end of input was reached while a program without literal input ran;
\* now a program that carries the input "a" runs, and its Read got EOF.
C30_Witness ==
    /\ hist.last = "read_iter"
    /\ ops = 2
    /\ hist.programs = 2
    /\ program.input = <<97>>
    /\ priv.end_of_input_reached
    /\ hist.cb = "none"
    /\ Top.temp = EOF

-----------------------------------------------------------------------------
(* Instructions as reference-counted objects: cattle/cattle-instruction.c,
   driven by a client through the public interface *)

MaxNodes == 3
MaxInstrOps == 5

G_MAXINT == 2147483647

NodeIds == 1 .. MaxNodes

\* The quantities a client passes to cattle_instruction_set_quantity.
QuantityArguments == {-1, 0, 1, 2, G_MAXINT}

\* Memory no instruction has been allocated in yet.
UnusedObject ==
    [ state |-> "unused", value |-> "NONE", quantity |-> 0, next |-> 0, loop |-> 0,
      ref_count |-> 0, disposed |-> FALSE ]

\* cattle_instruction_init, on an object g_object_new has just allocated: the
\* caller owns the one reference.
cattle_instruction_init ==
    [ state |-> "live", value |-> "NONE", quantity |-> 1, next |-> 0, loop |-> 0,
      ref_count |-> 1, disposed |-> FALSE ]

\* G_IS_OBJECT on a pointer that is NULL or points to a live object.
G_IS_OBJECT(h, id) == id # 0 /\ h[id].state = "live"

\* g_object_unref: the last reference disposes the object, which releases its
\* next and its loop, and then frees it.  cattle_instruction_dispose is the
\* body of the LET.
RECURSIVE g_object_unref(_, _)
g_object_unref(h, id) ==
    IF h[id].ref_count > 1
    THEN [h EXCEPT ![id].ref_count = @ - 1]
    ELSE LET h0 == IF h[id].disposed THEN h ELSE [h EXCEPT ![id].disposed = TRUE]
             h1 == IF ~h[id].disposed /\ G_IS_OBJECT(h0, h0[id].next)
                   THEN [g_object_unref(h0, h0[id].next) EXCEPT ![id].next = 0]
                   ELSE h0
             h2 == IF ~h[id].disposed /\ G_IS_OBJECT(h1, h1[id].loop)
                   THEN [g_object_unref(h1, h1[id].loop) EXCEPT ![id].loop = 0]
                   ELSE h1
         IN  IF h2[id].ref_count > 1
             THEN [h2 EXCEPT ![id].ref_count = @ - 1]
             ELSE [h2 EXCEPT ![id].ref_count = 0, ![id].state = "freed"]

g_object_ref(h, id) == [h EXCEPT ![id].ref_count = @ + 1]

\* A variant of cattle_instruction_set_quantity without the check of its
\* argument.
cattle_instruction_set_quantity_unchecked(h, self, quantity) ==
    IF ~h[self].disposed THEN [h EXCEPT ![self].quantity = quantity] ELSE h

\* cattle_instruction_set_quantity: g_return_if_fail rejects what is not in
\* 1 .. G_MAXINT - 1.
cattle_instruction_set_quantity(h, self, quantity) ==
    IF ~(quantity > 0 /\ quantity < G_MAXINT) THEN h
    ELSE IF ~h[self].disposed THEN [h EXCEPT ![self].quantity = quantity]
    ELSE h

\* cattle_instruction_set_next / cattle_instruction_set_loop on the edge
\* named: the reference on the previous value is released first, then the
\* pointer is stored and a reference taken on it.  undefined: the object the
\* pointer is stored in, or the object it points to, was freed by the
\* release; what follows reads or writes freed memory, and heap is the
\* memory if the call gets through it: the pointer stored, no reference taken.
SetEdge(h, self, edge, new) ==
    IF h[self].disposed THEN [heap |-> h, undefined |-> FALSE]
    ELSE LET h1 == IF G_IS_OBJECT(h, h[self][edge])
                   THEN g_object_unref(h, h[self][edge]) ELSE h
         IN  IF h1[self].state = "freed" \/ (new # 0 /\ h1[new].state = "freed")
             THEN [heap |-> IF h1[self].state = "freed" THEN h1
                            ELSE [h1 EXCEPT ![self][edge] = new],
                   undefined |-> TRUE]
             ELSE LET h2 == [h1 EXCEPT ![self][edge] = new]
                  IN  [heap |-> IF new # 0 THEN g_object_ref(h2, new) ELSE h2,
                       undefined |-> FALSE]

cattle_instruction_set_next(h, self, next) == SetEdge(h, self, "next", next)

cattle_instruction_set_loop(h, self, loop) == SetEdge(h, self, "loop", loop)

\* The objects reached from those of S by next and loop edges, S included.
RECURSIVE ReachableFrom(_, _)
ReachableFrom(h, S) ==
    LET T == S \cup { h[i].next : i \in S } \cup { h[i].loop : i \in S }
        U == { i \in T : i # 0 /\ h[i].state = "live" }
    IN  IF U = S THEN S ELSE ReachableFrom(h, U)

\* The objects next and loop of id lead to.
Subtree(h, id) ==
    IF id = 0 \/ h[id].state # "live" THEN {}
    ELSE ReachableFrom(h, {id})

Successors(h, id) == ReachableFrom(h, {h[id].next, h[id].loop} \ {0})

\* The pointers the client may use: to the objects it holds a reference on,
\* and those cattle_instruction_get_next and cattle_instruction_get_loop hand
\* out from them.
Usable == ReachableFrom(program.heap, { i \in program.held : program.heap[i].state = "live" })

InstrHistInit == [last |-> "init", self |-> 0, arg |-> 0, edge |-> "none"]

InitInstr ==
    /\ program = [heap |-> [i \in NodeIds |-> UnusedObject], held |-> {}]
    /\ tape = cattle_tape_init
    /\ configuration = [on_eof_action |-> "STORE_ZERO", debug_is_enabled |-> FALSE]
    /\ priv = cattle_interpreter_init
    /\ stack = <<>>
    /\ error = FALSE
    /\ result = "none"
    /\ hist = InstrHistInit
    /\ ops = 0

\* What a call that uses freed memory ends in: the process is killed, or it
\* goes on with the memory as it is.
UndefinedOutcomes == {"crashed", "undefined"}

\* The client may go on: nothing undefined has happened.
ClientCalls == result = "none" /\ ops < MaxInstrOps

\* cattle_instruction_new
InstrNew ==
    /\ ClientCalls
    /\ \E id \in NodeIds :
         /\ program.heap[id].state = "unused"
         /\ \A j \in NodeIds : j < id => program.heap[j].state # "unused"
         /\ program' = [heap |-> [program.heap EXCEPT ![id] = cattle_instruction_init],
                        held |-> program.held \cup {id}]
         /\ hist' = [last |-> "new", self |-> id, arg |-> 0, edge |-> "none"]
    /\ ops' = ops + 1
    /\ UNCHANGED <<tape, configuration, priv, stack, error, result>>

InstrSetQuantity ==
    /\ ClientCalls
    /\ \E self \in Usable, quantity \in QuantityArguments :
         /\ program' = [program EXCEPT
                           !.heap = cattle_instruction_set_quantity(@, self, quantity)]
         /\ hist' = [last |-> "set_quantity", self |-> self, arg |-> quantity, edge |-> "none"]
    /\ ops' = ops + 1
    /\ UNCHANGED <<tape, configuration, priv, stack, error, result>>

InstrSetValue ==
    /\ ClientCalls
    /\ \E self \in Usable :
         /\ program.heap[self].value = "NONE"
         /\ program' = [program EXCEPT !.heap[self].value = "LOOP_BEGIN"]
         /\ hist' = [last |-> "set_value", self |-> self, arg |-> 0, edge |-> "none"]
    /\ ops' = ops + 1
    /\ UNCHANGED <<tape, configuration, priv, stack, error, result>>

\* A call of cattle_instruction_set_next or cattle_instruction_set_loop.
InstrSetEdge(edge) ==
    /\ ClientCalls
    /\ \E self \in Usable, new \in Usable \cup {0} :
         LET r == IF edge = "next"
                  THEN cattle_instruction_set_next(program.heap, self, new)
                  ELSE cattle_instruction_set_loop(program.heap, self, new)
         IN  /\ program' = [program EXCEPT !.heap = r.heap]
             /\ result' \in (IF r.undefined THEN UndefinedOutcomes ELSE {result})
             /\ hist' = [last |-> "set_edge", self |-> self, arg |-> new, edge |-> edge]
    /\ ops' = ops + 1
    /\ UNCHANGED <<tape, configuration, priv, stack, error>>

InstrSetNext == InstrSetEdge("next")

InstrSetLoop == InstrSetEdge("loop")

\* The client releases a reference it holds.
InstrUnref ==
    /\ ClientCalls
    /\ \E id \in program.held :
         /\ program' = [heap |-> g_object_unref(program.heap, id),
                        held |-> program.held \ {id}]
         /\ hist' = [last |-> "unref", self |-> id, arg |-> 0, edge |-> "none"]
    /\ ops' = ops + 1
    /\ UNCHANGED <<tape, configuration, priv, stack, error, result>>

NextInstr ==
    \/ InstrNew
    \/ InstrSetQuantity
    \/ InstrSetValue
    \/ InstrSetNext
    \/ InstrSetLoop
    \/ InstrUnref

SpecInstr == InitInstr /\ [][NextInstr]_vars

\* C25: the quantity of every instruction is at least 1: a new instruction
\* has quantity 1, and cattle_instruction_set_quantity with a value of 0 or
\* less changes nothing.
C25_QuantityIsPositive ==
    [][ /\ \A id \in NodeIds :
              program'.heap[id].state = "live" => program'.heap[id].quantity >= 1
        /\ hist'.last = "new" => program'.heap[hist'.self].quantity = 1
        /\ (hist'.last = "set_quantity" /\ hist'.arg <= 0) => program' = program
        /\ (hist'.last = "set_quantity" /\ hist'.arg > 0 /\ hist'.arg < G_MAXINT) =>
              program'.heap[hist'.self].quantity = hist'.arg ]_vars

\* An instruction whose quantity had been set to 2 has been given 0, and
\* still has 2.
C25_Witness ==
    /\ hist.last = "set_quantity"
    /\ hist.arg = 0
    /\ program.heap[hist.self].quantity = 2

\* C26: after set_next / set_loop of a new subtree on an instruction, the
\* edge is the new subtree, one reference more is held on its first node,
\* no node of the new subtree is disposed or freed, and the nodes of the
\* previous subtree that were owned through this edge only are freed.
C26_SetEdgeReplacesSubtree ==
    [][ hist'.last = "set_edge" =>
          LET self == hist'.self
              new  == hist'.arg
              old  == program.heap[self][hist'.edge]
              kept == ReachableFrom(program'.heap,
                                    { i \in program'.held : program'.heap[i].state = "live" })
          IN  /\ result' = "none"
              /\ program'.heap[self][hist'.edge] = new
              /\ \A i \in Subtree(program.heap, new) :
                    program'.heap[i].state = "live" /\ ~program'.heap[i].disposed
              /\ (new # 0 /\ new # old) =>
                    program'.heap[new].ref_count = program.heap[new].ref_count + 1
              /\ \A i \in Subtree(program.heap, old) :
                    i \notin kept => program'.heap[i].state = "freed" ]_vars

\* C27: no instruction is reached from itself along next and loop edges.
C27_NoCycles ==
    \A id \in NodeIds :
        program.heap[id].state = "live" => id \notin Successors(program.heap, id)

\* C36: a set_next or set_loop that is given the instruction already on that
\* edge changes nothing: the edge still points to it, no reference count has
\* changed and no node has been disposed or freed, also when the edge holds
\* the only reference. (The instruction is live and not part of the subtree.)
C36_SameEdgeIsNoOp ==
    [][ ( /\ hist'.last = "set_edge"
          /\ hist'.arg # 0
          /\ hist'.arg = program.heap[hist'.self][hist'.edge]
          /\ program.heap[hist'.self].state = "live"
          /\ hist'.self \notin Subtree(program.heap, hist'.arg) ) =>
              /\ result' = "none"
              /\ program'.heap = program.heap ]_vars

=============================================================================
